---------------------------- MODULE Spec2Model ----------------------------
(***************************************************************************)
(* Peer-connection orchestration of the edge gateway: the peer registry    *)
(* (WebRTCManager), the per-viewer session (WebRTCPeer), the media routes  *)
(* of the Pipeline (static stream slots, dynamic streams and their port    *)
(* pool) and the reconnect supervisor (Application).                       *)
(*                                                                         *)
(* Threads are the callers of the registry: the signaling thread, the      *)
(* detached threads of addPeerAsync and the media engine's threads that    *)
(* deliver callbacks.  WebRTCManager::mutex_ is a std::mutex (not          *)
(* recursive).  Locking it again from the thread that owns it is undefined *)
(* behaviour; the two outcomes modelled are the ones std::mutex::lock can  *)
(* produce: the thread blocks forever, or lock() throws std::system_error  *)
(* (an exception that leaves a destructor ends the process).               *)
(***************************************************************************)
EXTENDS Integers, Sequences, FiniteSets, TLC

\* ------------------------------------------------------------ bounds
NumPeers == 2
NumThreads == 2
MaxStreamCount == 1
MaxAttempts == 7
MaxInFlight == 2
MaxQueued == 1
MaxSent == 3
MaxBytes == 2
MaxCounter == 40
MaxFirstStatus == 1

\* ------------------------------------------------- program constants
NumCameras == 2
BasePort == 5000
DynPortFirst == 8000
DynPortEnd == 9000
BackoffCap == 60
StreamPortFirst == 5000
StreamPortEnd == 6000

PeerIds == 1..NumPeers
Threads == 1..NumThreads
Sources == {"RGB", "Thermal_sub"}

RGB == 0
THERMAL == 1
MAIN == 0
SECONDARY == 1

NoPeer == [none |-> TRUE]
NoStream == [none |-> TRUE]
NoOwner == 0

\* The outcomes of std::mutex::lock() called by the thread that owns the mutex.
RelockOutcomes == {"block", "throw"}

VARIABLES
    peers_,               \* WebRTCManager::peers_: id -> PeerContext or NoPeer
    mutex_,               \* WebRTCManager::mutex_: its owner, or NoOwner
    pendingConnections_,  \* ids with a ticket whose inProgress is true
    streams,              \* Pipeline::Impl::streams: the static slots
    dynamicStreams,       \* Pipeline::Impl::dynamicStreams: id -> info or NoStream
    usedDynamicPorts,     \* Pipeline::Impl::usedDynamicPorts
    pc,                   \* where each thread is
    local,                \* each thread's locals (snapshot of removeAllPeers, async add)
    terminated,           \* std::terminate was called
    last,                 \* the registry call that acted last, and how it ended
    appState,             \* Application::state_
    running,              \* Application::running_
    connected,            \* WebSocketClient::Impl::connected
    initialInFlight,      \* the connect of setupWebSocket has not completed yet
    inFlight,             \* connects of checkAndReconnect that have not completed yet
    reconnectAttempts_,   \* Application::reconnectAttempts_
    sinceLastAttempt,     \* seconds from lastReconnectTime_ to now, up to BackoffCap
    attempt,              \* the failed reconnect attempts in a row, and the wait
                          \* that checkAndReconnect computed for its latest attempt
    codec,                \* the latest use of MessageParser: the message given to
                          \* serialize, the text on the wire, the result of parse
    backgroundTasks_,     \* MessageHandler::backgroundTasks_: the queued peer-joined tasks
    remoteDescription,    \* the latest call of a session's setRemoteDescription:
                          \* the peer, the type and the SDP text
    session,              \* a WebRTCPeer by itself: its fields, the promise left
                          \* with the media engine, and what its latest call or
                          \* callback returned, emitted and sent
    usedPorts_,           \* StreamManager::usedPorts_
    streams_,             \* StreamManager::streams_: id -> StreamConfig or NoStream
    released,             \* the latest release of a port on its own: the pool, the
                          \* ports in use, the port, and the ports in use after
                          \* one release and after a second one
    link                  \* the connection of WebSocketClient: how far onConnected
                          \* has come, the messages sent on impl_->connection since
                          \* it was set, and the detached first status sends

registryVars == <<peers_, mutex_, pendingConnections_, streams, dynamicStreams,
                  usedDynamicPorts, pc, local, terminated, last>>

supervisorVars == <<appState, running, connected, initialInFlight, inFlight,
                    reconnectAttempts_, sinceLastAttempt, attempt, link>>

signalingVars == <<codec, backgroundTasks_, remoteDescription, session>>

managerVars == <<usedPorts_, streams_, released>>

vars == <<registryVars, supervisorVars, signalingVars, managerVars>>

\* ------------------------------------------------------------ helpers

\* WebRTCManager::parseSource: "RGB"/"rgb"/"0" -> RGB, "Thermal"/"thermal"/"1" ->
\* THERMAL, anything else RGB.
parseSource(source) ==
    IF source \in {"RGB", "RGB_sub", "0"} THEN RGB
    ELSE IF source \in {"Thermal", "Thermal_sub", "1"} THEN THERMAL
    ELSE RGB

\* WebRTCManager::parseStreamType: "sub"/"secondary"/"enc2" -> SECONDARY, else MAIN.
parseStreamType(source) ==
    IF source \in {"RGB_sub", "Thermal_sub"} THEN SECONDARY ELSE MAIN

\* Pipeline::Impl::initializeStreams: one slot per (streamIdx, camIdx, streamType),
\* in that nesting order.
SlotCount == MaxStreamCount * NumCameras * 2

SlotAt(i) ==
    LET k == i - 1
        streamIdx == k \div (NumCameras * 2)
        camIdx == (k % (NumCameras * 2)) \div 2
        streamType == k % 2
    IN [peerId |-> 0, device |-> camIdx, type |-> streamType,
        port |-> BasePort + (streamIdx * 100) + (camIdx * 2) + streamType,
        active |-> FALSE]

initializeStreams == [i \in 1..SlotCount |-> SlotAt(i)]

\* std::find_if over the slots: the first of the indices in S, or 0 (the end).
FirstSlot(S) == IF S = {} THEN 0 ELSE CHOOSE i \in S : \A j \in S : i <= j

\* Pipeline::addStream: [ok, streams].
addStream(s, peerId, device, type) ==
    LET it == FirstSlot({i \in 1..Len(s) : /\ s[i].peerId = peerId
                                           /\ s[i].device = device
                                           /\ s[i].type = type})
        slotIt == FirstSlot({i \in 1..Len(s) : /\ ~s[i].active
                                               /\ s[i].device = device
                                               /\ s[i].type = type})
    IN IF it # 0 /\ s[it].active THEN [ok |-> FALSE, streams |-> s]
       ELSE IF slotIt = 0 THEN [ok |-> FALSE, streams |-> s]
       ELSE [ok |-> TRUE,
             streams |-> [s EXCEPT ![slotIt].peerId = peerId, ![slotIt].active = TRUE]]

\* Pipeline::removeStream: every active slot of the peer is cleared.
removeStream(s, peerId) ==
    [i \in 1..Len(s) |->
        IF s[i].peerId = peerId /\ s[i].active
        THEN [s[i] EXCEPT !.active = FALSE, !.peerId = 0]
        ELSE s[i]]

\* An allocator that hands out the first port of the range whatever is in use.
allocateFirstPort(used) == DynPortFirst

\* Pipeline::Impl::allocateDynamicPort: the lowest port of 8000..8999 not in use, or -1.
allocateDynamicPort(used) ==
    IF \E p \in DynPortFirst..(DynPortEnd - 1) : p \notin used
    THEN CHOOSE p \in DynPortFirst..(DynPortEnd - 1) :
            p \notin used /\ \A q \in DynPortFirst..(p - 1) : q \in used
    ELSE -1

\* A release that gives back the lowest port in use, whatever port it is given.
releaseLowestPort(used, port) ==
    IF used = {} THEN used ELSE used \ {CHOOSE p \in used : \A q \in used : p <= q}

\* Pipeline::Impl::releaseDynamicPort
releaseDynamicPort(used, port) == used \ {port}

\* StreamManager::allocatePort: the lowest of the ports 5000, 5002, .. below
\* 6000 that is not in use, or -1.
allocatePort(used) ==
    LET free == {p \in StreamPortFirst..(StreamPortEnd - 1) :
                    (p - StreamPortFirst) % 2 = 0 /\ p \notin used}
    IN  IF free = {} THEN -1 ELSE CHOOSE p \in free : \A q \in free : p <= q

\* StreamManager::releasePort
releasePort(used, port) == used \ {port}

\* EventRecorder::startRecordingProcess: the port that the recording of a
\* camera reads, and the ports of all cameras.
recordingPort(cameraIndex) == BasePort + (cameraIndex * 2)

RecordingPorts == {recordingPort(c) : c \in 0..(NumCameras - 1)}

NoRelease == [pool |-> "none", used |-> {}, port |-> -1, once |-> {}, twice |-> {}]

\* A lookup that finds nothing.
FindsNothing(m, peerId) == FALSE

\* peers_.find(peerId) != peers_.end()
Present(m, peerId) == m[peerId] # NoPeer

PeerCount == Cardinality({p \in PeerIds : Present(peers_, p)})

\* The PeerContext that addPeer builds before it touches the pipeline.
NewContext(source) ==
    [state_ |-> "NEW", infoState |-> "NEW",
     device |-> parseSource(source), streamType |-> parseStreamType(source),
     streamPort |-> -1, udpSrc |-> FALSE, webrtcbin |-> FALSE]

Idle(t) == pc[t] = "idle" /\ ~terminated

NoLocal == [id |-> 0, source |-> "", success |-> FALSE, ids |-> {}]

\* The record of a call: the operation, its peer id, how it ended and the step
\* that decided it.
Done(op, peerId, res, step) == [op |-> op, id |-> peerId, res |-> res, step |-> step]

\* ------------------------------------------------- session (WebRTCPeer)

\* WebRTCPeer::setState together with the registry's state-change callback
\* (WebRTCManager::onStateChange, which takes mutex_): "quiet" when the state does
\* not change (no callback), "notified" when the callback got the lock, and the
\* relock outcome ub when the calling thread already owns mutex_.
setState(holdsLock, old, new, ub) ==
    IF old = new THEN "quiet"
    ELSE IF holdsLock THEN ub
    ELSE "notified"

\* The session after setState(new) and its callback: state_ is assigned before
\* the callback runs; info.state is assigned by the callback once it has the lock.
AfterSetState(ctx, new, outcome) ==
    IF outcome = "notified"
    THEN [ctx EXCEPT !.state_ = new, !.infoState = new]
    ELSE [ctx EXCEPT !.state_ = new]

\* WebRTCPeer::disconnect, called with (holdsLock) or without mutex_ held:
\* [res, ctx]; res is "done", "block" or "throw".  cleanup() runs only when
\* setState returned.
disconnect(holdsLock, ctx, ub) ==
    IF ctx.state_ = "CLOSED" THEN [res |-> "done", ctx |-> ctx]
    ELSE LET o == setState(holdsLock, ctx.state_, "CLOSED", ub)
             c == AfterSetState(ctx, "CLOSED", o)
         IN IF o \in RelockOutcomes THEN [res |-> o, ctx |-> c]
            ELSE [res |-> "done", ctx |-> [c EXCEPT !.webrtcbin = FALSE]]

\* WebRTCPeer::connectToStream, called with (holdsLock) or without mutex_ held:
\* [res, ctx]; res is "true", "false", "block" or "throw".  connOk is the media
\* engine's answer to the element creation, linking and state change; a failure
\* of these leaves the session without webrtcbin.
connectToStream(holdsLock, ctx, connOk, ub) ==
    IF ~ctx.udpSrc THEN [res |-> "false", ctx |-> ctx]
    ELSE IF ~connOk THEN [res |-> "false", ctx |-> [ctx EXCEPT !.webrtcbin = FALSE]]
    ELSE LET c0 == [ctx EXCEPT !.webrtcbin = TRUE]
             o == setState(holdsLock, c0.state_, "CONNECTING", ub)
             c == AfterSetState(c0, "CONNECTING", o)
         IN [res |-> IF o \in RelockOutcomes THEN o ELSE "true", ctx |-> c]

\* ------------------------------------------------- registry (WebRTCManager)

\* WebRTCManager::createPeerConnection: [res, step, ctx].
createPeerConnection(ctx, dyn, peerId, udpOk, connOk, ub) ==
    IF dyn[peerId] = NoStream
    THEN [res |-> "false", step |-> "dynamicInfo", ctx |-> ctx]
    ELSE LET c1 == [ctx EXCEPT !.streamPort = dyn[peerId].port]
         IN IF ~udpOk THEN [res |-> "false", step |-> "udpsrc", ctx |-> c1]
            ELSE LET r == connectToStream(TRUE, [c1 EXCEPT !.udpSrc = TRUE], connOk, ub)
                 IN IF r.res = "false"
                    THEN [res |-> "false", step |-> "connectToStream",
                          ctx |-> [r.ctx EXCEPT !.udpSrc = FALSE]]
                    ELSE [res |-> r.res, step |-> "setState", ctx |-> r.ctx]

\* The destructor of a session that is not Closed (~WebRTCPeer calls disconnect)
\* run by a thread that owns mutex_: the thread blocks, or the exception leaves
\* the destructor and the process ends.
DestroySession(ctx, ub) ==
    LET d == disconnect(TRUE, ctx, ub)
    IN IF d.res = "block" THEN "block"
       ELSE IF d.res = "throw" THEN "terminate"
       ELSE "done"

\* WebRTCManager::addPeer and addPeerSync, from the lock to the return:
\* [res, step, peers, streams]; res is "true", "false", "block" (the thread is
\* stuck with mutex_), "threw" (an exception left the call) or "terminate".
addPeerResult(m, s, dyn, peerId, source, udpOk, connOk, ub) ==
    IF Present(m, peerId)
    THEN [res |-> "false", step |-> "duplicate", peers |-> m, streams |-> s]
    ELSE
    LET ctx == NewContext(source)
        as == addStream(s, peerId, ctx.device, ctx.streamType)
    IN IF ~as.ok
       THEN LET d == DestroySession(ctx, ub)
            IN [res |-> IF d = "done" THEN "false" ELSE d, step |-> "addStream",
                peers |-> m, streams |-> s]
       ELSE
       LET cp == createPeerConnection(ctx, dyn, peerId, udpOk, connOk, ub)
           m1 == [m EXCEPT ![peerId] = cp.ctx]
       IN CASE cp.res = "false" ->
                 LET d == DestroySession(cp.ctx, ub)
                 IN [res |-> IF d = "done" THEN "false" ELSE d, step |-> cp.step,
                     peers |-> m, streams |-> removeStream(as.streams, peerId)]
            [] cp.res = "block" ->
                 [res |-> "block", step |-> cp.step, peers |-> m1, streams |-> as.streams]
            [] cp.res = "throw" ->
                 [res |-> "threw", step |-> cp.step, peers |-> m1, streams |-> as.streams]
            [] OTHER ->
                 [res |-> "true", step |-> "none", peers |-> m1, streams |-> as.streams]

\* WebRTCManager::removePeer, from the lock to the return: [res, step, peers, streams].
removePeerResult(m, s, peerId, ub) ==
    IF ~Present(m, peerId)
    THEN [res |-> "false", step |-> "absent", peers |-> m, streams |-> s]
    ELSE LET d == disconnect(TRUE, m[peerId], ub)
             m1 == [m EXCEPT ![peerId] = d.ctx]
         IN CASE d.res = "block" ->
                   [res |-> "block", step |-> "disconnect", peers |-> m1, streams |-> s]
              [] d.res = "throw" ->
                   [res |-> "threw", step |-> "disconnect", peers |-> m1, streams |-> s]
              [] OTHER ->
                   [res |-> "true", step |-> "none",
                    peers |-> [m EXCEPT ![peerId] = NoPeer],
                    streams |-> removeStream(s, peerId)]

\* ------------------------------------- signaling protocol (MessageParser)

\* A value of nlohmann::json. An integer number is held by sign and magnitude,
\* the magnitude as hi * 2^16 + lo (the library keeps 64 bits; the magnitudes
\* used here go up to 2^32). An object is a function from its keys.
HalfWord == 65536

Null == [t |-> "null"]

Str(s) == [t |-> "string", s |-> s]

Bool(b) == [t |-> "boolean", b |-> b]

Num(neg, hi, lo) == [t |-> "number", neg |-> neg, hi |-> hi, lo |-> lo]

Obj(o) == [t |-> "object", o |-> o]

\* The helpers that build objects: a key that is not there, and one member.
Absent == [t |-> "absent"]

Field(k, v) == IF v = Absent THEN <<>> ELSE k :> v

\* A text on the wire is held by the JSON value it denotes (json::parse and
\* dump are inverse on values); NotJson is a text that json::parse rejects.
NotJson == [t |-> "invalid"]

\* json::parse of the string values used below that are themselves JSON texts.
ParseText(s) ==
    CASE s = "{}" -> Obj(<<>>)
      [] s = "7" -> Num(FALSE, 0, 7)
      [] s = "{\"sdp\":\"v=0 b\"}" -> Obj("sdp" :> Str("v=0 b"))
      [] OTHER -> NotJson

\* An int as a JSON number.
FromInt(n) ==
    IF n < 0 THEN Num(TRUE, (0 - n) \div HalfWord, (0 - n) % HalfWord)
    ELSE Num(FALSE, n \div HalfWord, n % HalfWord)

\* get<int> of a JSON integer: static_cast<int> of the 64-bit value, which keeps
\* the low 32 bits as two's complement.
StaticCastInt(n) ==
    LET h == n.hi % HalfWord
        uh == IF ~n.neg THEN h
              ELSE IF n.lo = 0 THEN (HalfWord - h) % HalfWord
              ELSE HalfWord - 1 - h
        ul == IF ~n.neg \/ n.lo = 0 THEN n.lo ELSE HalfWord - n.lo
    IN  IF uh >= HalfWord \div 2 THEN (uh - HalfWord) * HalfWord + ul
        ELSE uh * HalfWord + ul

\* basic_json::contains: false on everything that is not an object.
contains(j, key) == j.t = "object" /\ key \in DOMAIN j.o

\* basic_json::empty: null and containers without elements.
empty(j) == j.t = "null" \/ (j.t = "object" /\ DOMAIN j.o = {})

\* The outcome of a json access: a value, or a json exception (type_error).
Thrown == [thrown |-> TRUE]

Got(v) == [thrown |-> FALSE, v |-> v]

\* basic_json::value(key, default) with a string default: type_error 306 on a
\* non-object, the default without the key, type_error 302 on a non-string.
value(j, key, default) ==
    IF j.t # "object" THEN Thrown
    ELSE IF key \notin DOMAIN j.o THEN Got(default)
    ELSE IF j.o[key].t = "string" THEN Got(j.o[key].s)
    ELSE Thrown

\* basic_json::value(key, default) with an int default: numbers and booleans
\* are converted by static_cast<int>.
valueInt(j, key, default) ==
    IF j.t # "object" THEN Thrown
    ELSE IF key \notin DOMAIN j.o THEN Got(default)
    ELSE IF j.o[key].t = "number" THEN Got(StaticCastInt(j.o[key]))
    ELSE IF j.o[key].t = "boolean" THEN Got(IF j.o[key].b THEN 1 ELSE 0)
    ELSE Thrown

\* std::nullopt.
Nullopt == [kind |-> "nullopt"]

\* MessageParser::parsePeerJoined.
parsePeerJoined(j) ==
    IF ~contains(j, "message") THEN Nullopt
    ELSE LET msg == j.o["message"]
             peerId == value(msg, "peer_id", "")
             source == value(msg, "source", "RGB")
         IN  IF peerId.thrown THEN Nullopt
             ELSE IF source.thrown THEN Nullopt
             ELSE IF peerId.v = "" THEN Nullopt
             ELSE [kind |-> "PeerJoined", peerId |-> peerId.v, source |-> source.v]

\* A decoder of PeerLeft whose default for peer_id is the id of a peer.
parsePeerLeftDefault(j) ==
    IF ~contains(j, "message") THEN [kind |-> "nullopt"]
    ELSE LET peerId == value(j.o["message"], "peer_id", "p1")
         IN  IF peerId.thrown THEN [kind |-> "nullopt"]
             ELSE IF peerId.v = "" THEN [kind |-> "nullopt"]
             ELSE [kind |-> "PeerLeft", peerId |-> peerId.v]

\* MessageParser::parsePeerLeft.
parsePeerLeft(j) ==
    IF ~contains(j, "message") THEN Nullopt
    ELSE LET msg == j.o["message"]
             peerId == value(msg, "peer_id", "")
         IN  IF peerId.thrown THEN Nullopt
             ELSE IF peerId.v = "" THEN Nullopt
             ELSE [kind |-> "PeerLeft", peerId |-> peerId.v]

\* MessageParser::parseAnswer, lines 186-202: an object is kept, a string is
\* parsed as JSON and wrapped as {sdp, type: "answer"} when that fails, any
\* other value leaves result.sdp null.
answerSdp(sdp) ==
    IF sdp.t = "object" THEN sdp
    ELSE IF sdp.t = "string"
    THEN IF ParseText(sdp.s) # NotJson THEN ParseText(sdp.s)
         ELSE Obj(("sdp" :> Str(sdp.s)) @@ ("type" :> Str("answer")))
    ELSE Null

\* MessageParser::parseAnswer.
parseAnswer(j) ==
    IF ~contains(j, "message") THEN Nullopt
    ELSE LET msg == j.o["message"]
             peerId == value(msg, "peer_id", "")
         IN  IF peerId.thrown THEN Nullopt
             ELSE IF ~contains(msg, "sdp") THEN Nullopt
             ELSE IF peerId.v = "" THEN Nullopt
             ELSE IF empty(answerSdp(msg.o["sdp"])) THEN Nullopt
             ELSE [kind |-> "Answer", peerId |-> peerId.v,
                   sdp |-> answerSdp(msg.o["sdp"])]

\* MessageParser::parseIceCandidate.
parseIceCandidate(j) ==
    IF ~contains(j, "message") THEN Nullopt
    ELSE LET msg == j.o["message"]
             peerId == value(msg, "peer_id", "")
         IN  IF peerId.thrown THEN Nullopt
             ELSE IF ~contains(msg, "ice") THEN Nullopt
             ELSE LET ice == msg.o["ice"]
                      candidate == value(ice, "candidate", "")
                      mlineIndex == valueInt(ice, "sdpMLineIndex", -1)
                  IN  IF candidate.thrown THEN Nullopt
                      ELSE IF mlineIndex.thrown THEN Nullopt
                      ELSE IF peerId.v = "" \/ candidate.v = "" \/ mlineIndex.v < 0
                      THEN Nullopt
                      ELSE [kind |-> "IceCandidate", peerId |-> peerId.v,
                            candidate |-> candidate.v, mlineIndex |-> mlineIndex.v]

\* MessageParser::parseCommand: the command and its parameters by the first of
\* ptz, record, custom_command that the message holds; nothing is required.
parseCommand(j) ==
    IF ~contains(j, "message") THEN Nullopt
    ELSE LET msg == j.o["message"]
             peerId == value(msg, "peer_id", "")
         IN  IF peerId.thrown THEN Nullopt
             ELSE IF contains(msg, "ptz")
             THEN [kind |-> "Command", peerId |-> peerId.v, command |-> "ptz",
                   parameters |-> msg.o["ptz"]]
             ELSE IF contains(msg, "record")
             THEN [kind |-> "Command", peerId |-> peerId.v, command |-> "record",
                   parameters |-> msg.o["record"]]
             ELSE IF contains(msg, "custom_command")
             THEN [kind |-> "Command", peerId |-> peerId.v,
                   command |-> "custom_command", parameters |-> msg]
             ELSE [kind |-> "Command", peerId |-> peerId.v, command |-> "",
                   parameters |-> Null]

\* MessageParser::parse: json::parse, the action as a string (type_error on
\* any other value), the decoder of the action; every json exception and every
\* action without a decoder ends in std::nullopt.
parse(jsonStr) ==
    IF jsonStr = NotJson THEN Nullopt
    ELSE IF ~contains(jsonStr, "action") THEN Nullopt
    ELSE IF jsonStr.o["action"].t # "string" THEN Nullopt
    ELSE LET action == jsonStr.o["action"].s
         IN  CASE action = "camstatus_reply" -> Nullopt
               [] action = "ROOM_PEER_JOINED" -> parsePeerJoined(jsonStr)
               [] action = "ROOM_PEER_LEFT" -> parsePeerLeft(jsonStr)
               [] action = "answer" -> parseAnswer(jsonStr)
               [] action = "candidate" -> parseIceCandidate(jsonStr)
               [] action = "send_camera" -> parseCommand(jsonStr)
               [] OTHER -> Nullopt

\* The envelope that serialize builds.
Envelope(peerType, action, message) ==
    Obj(Field("peerType", peerType) @@ Field("action", action)
        @@ Field("message", message))

\* MessageParser::serialize.
serialize(message) ==
    CASE message.kind = "Register" ->
            Envelope(Str(message.peerType), Str("register"),
                     Obj(("name" :> Str(message.cameraId))
                         @@ ("fw_version" :> Str(message.firmwareVersion))
                         @@ ("ai_version" :> Str(message.aiVersion))))
      [] message.kind = "CameraStatus" ->
            Envelope(Str("camera"), Str("camstatus"),
                     Obj(("rec_status" :> Str(message.recordStatus))
                         @@ ("rec_usage" :> FromInt(message.recordUsage))
                         @@ ("cpu_temp" :> FromInt(message.cpuTemp))
                         @@ ("gpu_temp" :> FromInt(message.gpuTemp))
                         @@ ("rgb_snapshot" :> Str(message.rgbSnapshot))
                         @@ ("thermal_snapshot" :> Str(message.thermalSnapshot))))
      [] message.kind = "Offer" ->
            Envelope(Str("camera"), Str("offer"),
                     Obj(("peer_id" :> Str(message.peerId)) @@ ("sdp" :> message.sdp)))
      [] message.kind = "IceCandidate" ->
            Envelope(Str("camera"), Str("candidate"),
                     Obj(("peer_id" :> Str(message.peerId))
                         @@ ("ice" :> Obj(("candidate" :> Str(message.candidate))
                                          @@ ("sdpMLineIndex" :> FromInt(message.mlineIndex))))))
      [] message.kind = "PeerJoined" ->
            Envelope(Str("client"), Str("peer_joined"),
                     Obj(("peer_id" :> Str(message.peerId))
                         @@ ("source" :> Str(message.source))))
      [] message.kind = "PeerLeft" ->
            Envelope(Str("client"), Str("peer_left"),
                     Obj("peer_id" :> Str(message.peerId)))
      [] message.kind = "Answer" ->
            Envelope(Str("client"), Str("answer"),
                     Obj(("peer_id" :> Str(message.peerId)) @@ ("sdp" :> message.sdp)))
      [] message.kind = "Command" ->
            Envelope(Str("controller"), Str("command"),
                     Obj(("peer_id" :> Str(message.peerId))
                         @@ ("command" :> Str(message.command))))

\* The id of a peer as the text that the wire carries.
PeerName(p) == "p" \o ToString(p)

\* The SDP texts (no SDP is a JSON text: it starts with v=) and the session
\* descriptions {type, sdp} that carry them.
SdpTexts == {"v=0 a", "v=0 b"}

SessionDescription(type, text) == Obj(("type" :> Str(type)) @@ ("sdp" :> Str(text)))

CandidateTexts == {"c1", "c2"}

\* The messages with valid fields, one set per variant.
Messages ==
    {[kind |-> "Register", peerType |-> "camera", cameraId |-> "cam", firmwareVersion |-> "1.0",
      aiVersion |-> "2.0"]}
    \cup {[kind |-> "CameraStatus", recordStatus |-> "On", recordUsage |-> 40, cpuTemp |-> 50,
           gpuTemp |-> 45, rgbSnapshot |-> "", thermalSnapshot |-> ""]}
    \cup {[kind |-> "PeerJoined", peerId |-> PeerName(p), source |-> src] :
             p \in PeerIds, src \in Sources}
    \cup {[kind |-> "PeerLeft", peerId |-> PeerName(p)] : p \in PeerIds}
    \cup {[kind |-> "Offer", peerId |-> PeerName(p), sdp |-> SessionDescription("offer", t)] :
             p \in PeerIds, t \in SdpTexts}
    \cup {[kind |-> "Answer", peerId |-> PeerName(p), sdp |-> SessionDescription("answer", t)] :
             p \in PeerIds, t \in SdpTexts}
    \cup {[kind |-> "IceCandidate", peerId |-> PeerName(p), candidate |-> c, mlineIndex |-> i] :
             p \in PeerIds, c \in CandidateTexts, i \in 0 .. 1}
    \cup {[kind |-> "Command", peerId |-> PeerName(p), command |-> c,
           parameters |-> Obj("pan" :> FromInt(1))] :
             p \in PeerIds, c \in {"ptz", "record"}}

\* The members that a text from the server can carry, well-formed and not.
PeerIdFields ==
    {Absent, Str(""), FromInt(7)} \cup {Str(PeerName(p)) : p \in PeerIds}

SourceFields == {Absent, FromInt(7)} \cup {Str(src) : src \in Sources}

SdpFields ==
    {Absent, Obj(<<>>), FromInt(7), Str("{}"), Str("7"), Str("{\"sdp\":\"v=0 b\"}"),
     Obj("type" :> Str("answer"))}
    \cup {SessionDescription("answer", t) : t \in SdpTexts}
    \cup {Str(t) : t \in SdpTexts}

CandidateFields == {Absent, Str(""), FromInt(7)} \cup {Str(c) : c \in CandidateTexts}

\* sdpMLineIndex: -1, 0, 1, 2^31, 2^32, a string, a boolean, or not there.
IndexFields ==
    {Absent, FromInt(-1), FromInt(0), FromInt(1), Num(FALSE, HalfWord \div 2, 0),
     Num(FALSE, HalfWord, 0), Str("0"), Bool(TRUE)}

IceFields ==
    {Absent, Str("c1")}
    \cup {Obj(Field("candidate", c) @@ Field("sdpMLineIndex", FromInt(0))) :
             c \in CandidateFields}
    \cup {Obj(Field("candidate", Str(c)) @@ Field("sdpMLineIndex", i)) :
             c \in CandidateTexts, i \in IndexFields}

CommandFields ==
    {<<>>, "ptz" :> Obj("pan" :> FromInt(1)), "record" :> Bool(TRUE),
     "custom_command" :> Str("reboot")}

\* The payloads per action of the server: the members next to peer_id.
Payloads(action) ==
    CASE action = "ROOM_PEER_JOINED" -> {Field("source", s) : s \in SourceFields}
      [] action = "answer" -> {Field("sdp", s) : s \in SdpFields}
      [] action = "candidate" -> {Field("ice", i) : i \in IceFields}
      [] action = "send_camera" -> CommandFields
      [] OTHER -> {<<>>}

\* The payload of a well-formed message per action.
GoodPayload(action) ==
    CASE action = "ROOM_PEER_JOINED" -> Field("source", Str("RGB"))
      [] action = "answer" -> Field("sdp", SessionDescription("answer", "v=0 a"))
      [] action = "candidate" ->
            Field("ice", Obj(Field("candidate", Str("c1"))
                             @@ Field("sdpMLineIndex", FromInt(0))))
      [] action = "send_camera" -> "ptz" :> Obj("pan" :> FromInt(1))
      [] OTHER -> <<>>

\* The message objects per action: every peer_id with a good payload, every
\* payload with a peer id of the registry.
MessageObjects(action) ==
    {Obj(Field("peer_id", p) @@ GoodPayload(action)) : p \in PeerIdFields}
    \cup {Obj(Field("peer_id", Str(PeerName(p))) @@ c) :
             p \in PeerIds, c \in Payloads(action)}

\* The message member of an envelope: not there, not an object, or an object.
MessageFields(action) == {Absent, Str("x")} \cup MessageObjects(action)

ServerActions ==
    {"ROOM_PEER_JOINED", "ROOM_PEER_LEFT", "answer", "candidate", "send_camera",
     "camstatus_reply", "offer"}

Wires ==
    {NotJson, FromInt(7), Obj(<<>>), Obj("action" :> FromInt(7))}
    \cup UNION {{Envelope(peerType, Str(action), m) :
                     peerType \in {Absent, Str("client")}, m \in MessageFields(action)} :
                 action \in ServerActions}

NoCodec == [sent |-> Nullopt, wire |-> NotJson, parsed |-> Nullopt]

\* ------------------------------------------ dispatch (MessageHandler)

\* The type of a session description: its string member type, "" without one.
sdpType(sdp) ==
    IF contains(sdp, "type") /\ sdp.o["type"].t = "string" THEN sdp.o["type"].s ELSE ""

\* MessageHandler::handleAnswer, lines 100-115: the SDP text of an answer, from
\* the string member sdp of an object or from a string; "" otherwise.
sdpStr(sdp) ==
    IF sdp.t = "object"
    THEN IF contains(sdp, "sdp") /\ sdp.o["sdp"].t = "string" THEN sdp.o["sdp"].s ELSE ""
    ELSE IF sdp.t = "string" THEN sdp.s
    ELSE ""

\* The id of the registry for a peer id text.
PeerIdOf(name) == CHOOSE p \in PeerIds : PeerName(p) = name

\* A text with a required field missing, for the decoder of its action: no
\* message, no (or an empty) peer_id, no sdp, no ice, no (or an empty)
\* candidate, no sdpMLineIndex or one < 0, no command payload.
MissingField(w) ==
    \/ ~contains(w, "message")
    \/ ~contains(w.o["message"], "peer_id")
    \/ w.o["message"].o["peer_id"] = Str("")
    \/ /\ w.o["action"].s = "answer"
       /\ ~contains(w.o["message"], "sdp")
    \/ /\ w.o["action"].s = "candidate"
       /\ \/ ~contains(w.o["message"], "ice")
          \/ ~contains(w.o["message"].o["ice"], "candidate")
          \/ w.o["message"].o["ice"].o["candidate"] = Str("")
          \/ ~contains(w.o["message"].o["ice"], "sdpMLineIndex")
          \/ /\ w.o["message"].o["ice"].o["sdpMLineIndex"].t = "number"
             /\ w.o["message"].o["ice"].o["sdpMLineIndex"].neg
    \/ /\ w.o["action"].s = "send_camera"
       /\ \A k \in {"ptz", "record", "custom_command"} : ~contains(w.o["message"], k)

\* Invalid JSON, an unknown action (or none), or a missing required field.
Malformed(w) ==
    \/ w = NotJson
    \/ ~contains(w, "action")
    \/ w.o["action"].t # "string"
    \/ w.o["action"].s \notin {"ROOM_PEER_JOINED", "ROOM_PEER_LEFT", "answer", "candidate",
                               "send_camera", "camstatus_reply"}
    \/ w.o["action"].s # "camstatus_reply" /\ MissingField(w)

NoDescription == [peerId |-> 0, type |-> "", sdp |-> ""]

\* WebRTCPeer::setRemoteDescription(type, sdp), called with (holdsLock) or
\* without mutex_ held: [res, step, ctx, promise]; sdpOk is the answer of
\* gst_sdp_message_parse_buffer; promise is the request that is left with the
\* media engine ("answer": create-answer).
setRemoteDescription(holdsLock, ctx, type, sdpOk, ub) ==
    IF ~ctx.webrtcbin
    THEN [res |-> "false", step |-> "webrtcbin", ctx |-> ctx, promise |-> "none"]
    ELSE IF ~sdpOk
    THEN [res |-> "false", step |-> "sdp", ctx |-> ctx, promise |-> "none"]
    ELSE IF type = "answer"
    THEN LET o == setState(holdsLock, ctx.state_, "CONNECTED", ub)
         IN  [res |-> IF o \in RelockOutcomes THEN o ELSE "true", step |-> "setState",
              ctx |-> AfterSetState(ctx, "CONNECTED", o), promise |-> "none"]
    ELSE [res |-> "true", step |-> "none", ctx |-> ctx,
          promise |-> IF type = "offer" THEN "answer" ELSE "none"]

\* WebRTCPeer::addIceCandidate: false without webrtcbin, otherwise the
\* candidate goes to the media engine; no state is read or written.
addIceCandidate(ctx) == IF ctx.webrtcbin THEN "true" ELSE "false"

\* WebRTCManager::handleOffer / handleAnswer, from the lock to the return:
\* [res, step, peers, streams].
handleDescriptionResult(m, s, peerId, type, sdpOk, ub) ==
    IF ~Present(m, peerId)
    THEN [res |-> "false", step |-> "absent", peers |-> m, streams |-> s]
    ELSE LET r == setRemoteDescription(TRUE, m[peerId], type, sdpOk, ub)
         IN  [res |-> IF r.res = "throw" THEN "threw" ELSE r.res, step |-> r.step,
              peers |-> [m EXCEPT ![peerId] = r.ctx], streams |-> s]

\* WebRTCManager::handleIceCandidate, from the lock to the return.
handleIceCandidateResult(m, s, peerId) ==
    IF ~Present(m, peerId)
    THEN [res |-> "false", step |-> "absent", peers |-> m, streams |-> s]
    ELSE [res |-> addIceCandidate(m[peerId]), step |-> "none", peers |-> m, streams |-> s]

\* ------------------------------------------------- session callbacks

\* What a step of a session hands to its listener: nothing, or one event.
NoEvent == [name |-> "none"]

\* The stateChangeCallback_ call of WebRTCPeer::setState.
StateChangeEvent(old, new) ==
    IF old = new THEN NoEvent ELSE [name |-> "StateChange", old |-> old, new |-> new]

NothingSent == [kind |-> "nothing"]

\* WebRTCPeer::createOffer: [res, promise]; false without webrtcbin, otherwise
\* the earlier promise is dropped and create-offer is left with the media engine.
createOffer(ctx, promise) ==
    IF ~ctx.webrtcbin THEN [res |-> "false", promise |-> promise]
    ELSE [res |-> "true", promise |-> "offer"]

\* WebRTCPeer::Impl::onOfferCreated with the reply of the media engine (the
\* text of the offer, "" when the reply holds none): the event for the listener.
onOfferCreated(reply) ==
    IF reply = "" THEN [name |-> "Error", error |-> "Failed to create offer"]
    ELSE [name |-> "OfferCreated", sdp |-> reply]

\* WebRTCPeer::Impl::onAnswerCreated with the reply of the media engine: the
\* answer becomes the local description and is logged.
onAnswerCreated(reply) ==
    IF reply = "" THEN [name |-> "Error", error |-> "Failed to create answer"]
    ELSE NoEvent

\* WebRTCManager::onOfferCreated, the message callback of MessageHandler and
\* MessageHandler::sendOffer: the text handed to sendCallback_.
sendOffer(peerId, sdp) ==
    serialize([kind |-> "Offer", peerId |-> peerId,
               sdp |-> SessionDescription("offer", sdp)])

\* WebRTCManager::onIceCandidate, the message callback of MessageHandler and
\* MessageHandler::sendIceCandidate: the text handed to sendCallback_.
sendIceCandidate(peerId, candidate, mlineIndex) ==
    serialize([kind |-> "IceCandidate", peerId |-> peerId, candidate |-> candidate,
               mlineIndex |-> mlineIndex])

\* WebSocketClient before any connect: onConnected is not running, nothing was
\* sent, impl_->connection is null, and no detached status send is pending.
NoLink == [step |-> "idle", connection |-> FALSE, sent |-> <<>>, firstStatus |-> 0]


\* The session that the registry constructs for a peer, before any call.
NewSession ==
    [ctx |-> NewContext("RGB"), promise |-> "none", event |-> NoEvent,
     res |-> "none", sent |-> NothingSent]

Init ==
    /\ peers_ = [p \in PeerIds |-> NoPeer]
    /\ mutex_ = NoOwner
    /\ pendingConnections_ = {}
    /\ streams = initializeStreams
    /\ dynamicStreams = [p \in PeerIds |-> NoStream]
    /\ usedDynamicPorts = {}
    /\ pc = [t \in Threads |-> "idle"]
    /\ local = [t \in Threads |-> NoLocal]
    /\ terminated = FALSE
    /\ last = Done("init", 0, "none", "none")
    /\ appState = "INITIALIZING"
    /\ running = FALSE
    /\ connected = FALSE
    /\ initialInFlight = FALSE
    /\ inFlight = 0
    /\ reconnectAttempts_ = 0
    /\ sinceLastAttempt = BackoffCap
    /\ attempt = [failed |-> 0, after |-> -1, backoffTime |-> -1]
    /\ link = NoLink
    /\ codec = NoCodec
    /\ backgroundTasks_ = <<>>
    /\ remoteDescription = NoDescription
    /\ session = NewSession
    /\ usedPorts_ = {}
    /\ streams_ = [p \in PeerIds |-> NoStream]
    /\ released = NoRelease


\* ------------------------------------------------------------ actions

\* How a thread leaves a call on the registry: it is stuck inside it ("block"),
\* or it is back at its caller.
PcAfter(res) == IF res = "block" THEN "deadlocked" ELSE "idle"

\* Pipeline::addDynamicStream(peerId, device, type): gstOk is the media engine's
\* answer to the tee lookup, the element creation and the linking; every failure
\* after the port was allocated releases it again.  Of the stream's record only
\* the port is read by the registry.
AddDynamicStream(peerId, gstOk) ==
    /\ ~terminated
    /\ LET port == allocateDynamicPort(usedDynamicPorts)
           ok == dynamicStreams[peerId] = NoStream /\ gstOk /\ port >= 0
       IN /\ dynamicStreams' =
                IF ok
                THEN [dynamicStreams EXCEPT ![peerId] =
                        [port |-> port]]
                ELSE dynamicStreams
          /\ usedDynamicPorts' =
                IF ok THEN usedDynamicPorts \cup {port} ELSE usedDynamicPorts
    /\ UNCHANGED <<peers_, mutex_, pendingConnections_, streams, pc, local, terminated,
                   last>>
    /\ UNCHANGED <<supervisorVars, signalingVars, managerVars>>

\* Pipeline::removeDynamicStream(peerId)
RemoveDynamicStream(peerId) ==
    /\ ~terminated
    /\ LET found == dynamicStreams[peerId] # NoStream
       IN /\ dynamicStreams' =
                IF found THEN [dynamicStreams EXCEPT ![peerId] = NoStream]
                ELSE dynamicStreams
          /\ usedDynamicPorts' =
                IF found
                THEN releaseDynamicPort(usedDynamicPorts, dynamicStreams[peerId].port)
                ELSE usedDynamicPorts
    /\ UNCHANGED <<peers_, mutex_, pendingConnections_, streams, pc, local, terminated,
                   last>>
    /\ UNCHANGED <<supervisorVars, signalingVars, managerVars>>

\* A call that needs mutex_ while a stuck thread owns it: the caller waits forever.
WaitForever(op, t, peerId) ==
    /\ Idle(t)
    /\ mutex_ # NoOwner
    /\ pc' = [pc EXCEPT ![t] = "waiting"]
    /\ last' = Done(op, peerId, "waiting", "lock")
    /\ UNCHANGED <<peers_, mutex_, pendingConnections_, streams, dynamicStreams,
                   usedDynamicPorts, local, terminated>>
    /\ UNCHANGED <<supervisorVars, signalingVars, managerVars>>

\* The registry's part of a call that ended with r: the map, the slots, the lock.
ApplyResult(t, r) ==
    /\ peers_' = r.peers
    /\ streams' = r.streams
    /\ mutex_' = IF r.res = "block" THEN t ELSE NoOwner
    /\ terminated' = (r.res = "terminate")

\* WebRTCManager::addPeer(peerId, source)
AddPeer(t, peerId, source) ==
    /\ Idle(t)
    /\ mutex_ = NoOwner
    /\ \E udpOk \in BOOLEAN, connOk \in BOOLEAN, ub \in RelockOutcomes :
          LET r == addPeerResult(peers_, streams, dynamicStreams, peerId, source,
                                 udpOk, connOk, ub)
          IN /\ ApplyResult(t, r)
             /\ pc' = [pc EXCEPT ![t] = PcAfter(r.res)]
             /\ last' = Done("addPeer", peerId, r.res, r.step)
    /\ UNCHANGED <<pendingConnections_, dynamicStreams, usedDynamicPorts, local>>
    /\ UNCHANGED <<supervisorVars, signalingVars, managerVars>>

\* WebRTCManager::addPeerAsync(peerId, source), up to the start of the detached
\* thread w: the ticket check and the ticket.
StartAsyncAdd(w, peerId, source) ==
    /\ ~terminated
    /\ IF peerId \in pendingConnections_
       THEN /\ last' = Done("addPeerAsync", peerId, "false", "pending")
            /\ UNCHANGED <<pendingConnections_, pc, local>>
       ELSE /\ Idle(w)
            /\ pendingConnections_' = pendingConnections_ \cup {peerId}
            /\ pc' = [pc EXCEPT ![w] = "asyncAdd"]
            /\ local' = [local EXCEPT ![w] = [NoLocal EXCEPT !.id = peerId,
                                                              !.source = source]]
            /\ last' = Done("addPeerAsync", peerId, "true", "none")
    /\ UNCHANGED <<peers_, mutex_, streams, dynamicStreams, usedDynamicPorts, terminated>>

\* WebRTCManager::addPeerAsync called by itself.
AddPeerAsync(w, peerId, source) ==
    /\ StartAsyncAdd(w, peerId, source)
    /\ UNCHANGED <<supervisorVars, signalingVars, managerVars>>

\* The detached thread of addPeerAsync runs addPeerSync.  An exception that
\* leaves addPeerSync is caught and logged: the thread ends and the ticket stays.
AsyncAddPeerSync(w) ==
    /\ pc[w] = "asyncAdd"
    /\ ~terminated
    /\ IF mutex_ # NoOwner
       THEN /\ pc' = [pc EXCEPT ![w] = "waiting"]
            /\ last' = Done("addPeerSync", local[w].id, "waiting", "lock")
            /\ UNCHANGED <<peers_, mutex_, streams, terminated, local>>
       ELSE \E udpOk \in BOOLEAN, connOk \in BOOLEAN, ub \in RelockOutcomes :
              LET r == addPeerResult(peers_, streams, dynamicStreams, local[w].id,
                                     local[w].source, udpOk, connOk, ub)
              IN /\ ApplyResult(w, r)
                 /\ pc' = [pc EXCEPT ![w] =
                             IF r.res \in {"true", "false"} THEN "asyncResolve"
                             ELSE PcAfter(r.res)]
                 /\ local' = [local EXCEPT ![w] =
                                IF r.res \in {"true", "false"}
                                THEN [local[w] EXCEPT !.success = (r.res = "true")]
                                ELSE NoLocal]
                 /\ last' = Done("addPeerSync", local[w].id, r.res, r.step)
    /\ UNCHANGED <<pendingConnections_, dynamicStreams, usedDynamicPorts>>
    /\ UNCHANGED <<supervisorVars, signalingVars, managerVars>>

\* The detached thread of addPeerAsync after addPeerSync returned: the ticket is
\* erased, whatever the result.
AsyncResolve(w) ==
    /\ pc[w] = "asyncResolve"
    /\ ~terminated
    /\ pendingConnections_' = pendingConnections_ \ {local[w].id}
    /\ pc' = [pc EXCEPT ![w] = "idle"]
    /\ local' = [local EXCEPT ![w] = NoLocal]
    /\ last' = Done("asyncResolve", local[w].id,
                    IF local[w].success THEN "true" ELSE "false", "none")
    /\ UNCHANGED <<peers_, mutex_, streams, dynamicStreams, usedDynamicPorts, terminated>>
    /\ UNCHANGED <<supervisorVars, signalingVars, managerVars>>

\* WebRTCManager::removePeer(peerId), as op: called directly (the PeerLeft
\* signal) or from the session's error callback (WebRTCManager::onError).
RemovePeerAs(op, t, peerId) ==
    /\ Idle(t)
    /\ mutex_ = NoOwner
    /\ \E ub \in RelockOutcomes :
          LET r == removePeerResult(peers_, streams, peerId, ub)
          IN /\ ApplyResult(t, r)
             /\ pc' = [pc EXCEPT ![t] = PcAfter(r.res)]
             /\ last' = Done(op, peerId, r.res, r.step)
    /\ UNCHANGED <<pendingConnections_, dynamicStreams, usedDynamicPorts, local>>
    /\ UNCHANGED <<supervisorVars, signalingVars, managerVars>>

RemovePeer(t, peerId) == RemovePeerAs("removePeer", t, peerId)

\* WebRTCPeer::Impl::onOfferCreated / onAnswerCreated without a reply
\* description, on the media engine's thread t: the session's error callback,
\* that is WebRTCManager::onError(peerId), which calls removePeer(peerId).  The
\* session takes part in a negotiation once its webrtcbin exists.
OnError(t, peerId) ==
    /\ Present(peers_, peerId)
    /\ peers_[peerId].webrtcbin
    /\ \/ RemovePeerAs("onError", t, peerId)
       \/ WaitForever("onError", t, peerId)

\* WebRTCManager::removeAllPeers up to the end of its locked block: the ids are
\* copied under the lock.
SnapshotIds(t) ==
    /\ Idle(t)
    /\ mutex_ = NoOwner
    /\ pc' = [pc EXCEPT ![t] = "removeAll"]
    /\ local' = [local EXCEPT ![t] =
                    [NoLocal EXCEPT !.ids = {p \in PeerIds : Present(peers_, p)}]]
    /\ last' = Done("removeAllSnapshot", 0, "none", "none")
    /\ UNCHANGED <<peers_, mutex_, pendingConnections_, streams, dynamicStreams,
                   usedDynamicPorts, terminated>>

\* WebRTCManager::removeAllPeers, called by itself.
RemoveAllSnapshot(t) ==
    /\ SnapshotIds(t)
    /\ UNCHANGED <<supervisorVars, signalingVars, managerVars>>

\* WebRTCManager::removeAllPeers: removePeer for one id of the copy (the copy is
\* in the map's iteration order, which is any order), or the return when none
\* is left.  An exception that leaves removePeer leaves removeAllPeers too.
RemoveAllStep(t) ==
    /\ pc[t] = "removeAll"
    /\ ~terminated
    /\ IF local[t].ids = {}
       THEN /\ pc' = [pc EXCEPT ![t] = "idle"]
            /\ local' = [local EXCEPT ![t] = NoLocal]
            /\ last' = Done("removeAllPeers", 0, "returned", "none")
            /\ UNCHANGED <<peers_, mutex_, streams, terminated>>
       ELSE IF mutex_ # NoOwner
       THEN /\ pc' = [pc EXCEPT ![t] = "waiting"]
            /\ local' = [local EXCEPT ![t] = NoLocal]
            /\ last' = Done("removeAllPeers", 0, "waiting", "lock")
            /\ UNCHANGED <<peers_, mutex_, streams, terminated>>
       ELSE \E peerId \in local[t].ids, ub \in RelockOutcomes :
              LET r == removePeerResult(peers_, streams, peerId, ub)
              IN /\ ApplyResult(t, r)
                 /\ pc' = [pc EXCEPT ![t] =
                             IF r.res \in {"true", "false"} THEN "removeAll"
                             ELSE PcAfter(r.res)]
                 /\ local' = [local EXCEPT ![t] =
                                IF r.res \in {"true", "false"}
                                THEN [local[t] EXCEPT !.ids = @ \ {peerId}]
                                ELSE NoLocal]
                 /\ last' = Done("removeAllPeers", peerId,
                                 IF r.res \in {"true", "false"} THEN "removing" ELSE r.res,
                                 r.step)
    /\ UNCHANGED <<pendingConnections_, dynamicStreams, usedDynamicPorts>>
    /\ UNCHANGED <<supervisorVars, signalingVars, managerVars>>

\* ------------------------------------------- supervisor (Application)

Min(a, b) == IF a < b THEN a ELSE b

\* (1 << k) on a 32-bit int, for the shift counts that MaxAttempts allows.
ShiftLeft(k) == 2 ^ k

\* Application::checkAndReconnect, line 918: std::min(60, (1 << reconnectAttempts_)).
backoffTime(attempts) == Min(BackoffCap, ShiftLeft(attempts))

\* The clock: the next instant at which timeSinceLastAttempt >= backoffTime can
\* change its answer (the waits are powers of two up to the cap).
NextInstant(since) == IF since = 0 THEN 1 ELSE Min(BackoffCap, 2 * since)

\* WebSocketClient::isConnected: the flag, and a connection that is there and open.
isConnected == connected /\ link.connection

\* The send callback of setupWebSocket and WebSocketClient::sendText: the text
\* goes out on impl_->connection when isConnected(), and is dropped otherwise.
\* sent keeps the first MaxSent messages of the connection.
sendText(sent, kind) ==
    IF isConnected /\ Len(sent) < MaxSent THEN Append(sent, kind) ELSE sent

\* Application::onWebSocketDisconnected on thread t: setState(CONNECTING), then
\* removeAllPeers, which copies the ids under mutex_ (or waits for a stuck owner).
onWebSocketDisconnected(t) ==
    /\ appState' = "CONNECTING"
    /\ IF mutex_ = NoOwner
       THEN SnapshotIds(t)
       ELSE /\ Idle(t)
            /\ pc' = [pc EXCEPT ![t] = "waiting"]
            /\ last' = Done("removeAllPeers", 0, "waiting", "lock")
            /\ UNCHANGED <<peers_, mutex_, pendingConnections_, streams, dynamicStreams,
                           usedDynamicPorts, local, terminated>>

\* Application::onWebSocketConnected: setState(CONNECTED), the counter back to
\* zero, the registration, setState(REGISTERED).
onWebSocketConnected ==
    /\ appState' = "REGISTERED"
    /\ reconnectAttempts_' = 0
    /\ attempt' = [attempt EXCEPT !.failed = 0]

\* Application::initialize as far as the signaling link goes: setupWebSocket
\* starts the first connect (ok: WebSocketClient::connect returned true, the
\* connect is under way), and initialize ends with setState(INITIALIZED).
Initialize(ok) ==
    /\ appState = "INITIALIZING"
    /\ appState' = "INITIALIZED"
    /\ initialInFlight' = ok
    /\ UNCHANGED <<running, connected, inFlight, reconnectAttempts_, sinceLastAttempt,
                   attempt, link>>
    /\ UNCHANGED registryVars
    /\ UNCHANGED <<signalingVars, managerVars>>

\* Application::run: setState(RUNNING) and the start of the heartbeat thread.
Run ==
    /\ appState = "INITIALIZED"
    /\ ~running
    /\ appState' = "RUNNING"
    /\ running' = TRUE
    /\ UNCHANGED <<connected, initialInFlight, inFlight, reconnectAttempts_,
                   sinceLastAttempt, attempt, link>>
    /\ UNCHANGED registryVars
    /\ UNCHANGED <<signalingVars, managerVars>>

\* Time passes between two rounds of the heartbeat thread.
Tick ==
    /\ running
    /\ sinceLastAttempt < BackoffCap
    /\ sinceLastAttempt' = NextInstant(sinceLastAttempt)
    /\ UNCHANGED <<appState, running, connected, initialInFlight, inFlight,
                   reconnectAttempts_, attempt, link>>
    /\ UNCHANGED registryVars
    /\ UNCHANGED <<signalingVars, managerVars>>

\* Application::checkAndReconnect on the heartbeat thread, when the wait is
\* over: ok is the return value of WebSocketClient::connect, which is true
\* without a new connect when the flag connected is set, and false only when
\* the request could not be built.
CheckAndReconnect(ok) ==
    /\ running
    /\ ~isConnected
    /\ connected => ok
    /\ sinceLastAttempt >= backoffTime(reconnectAttempts_)
    /\ attempt.failed < MaxAttempts
    /\ appState' = "CONNECTING"
    /\ sinceLastAttempt' = 0
    /\ IF ok
       THEN /\ connected \/ inFlight < MaxInFlight
            /\ inFlight' = IF connected THEN inFlight ELSE inFlight + 1
            /\ reconnectAttempts_' = reconnectAttempts_
            /\ attempt' = [attempt EXCEPT !.after = attempt.failed,
                                          !.backoffTime = backoffTime(reconnectAttempts_)]
       ELSE /\ inFlight' = inFlight
            /\ reconnectAttempts_' = reconnectAttempts_ + 1
            /\ attempt' = [failed |-> attempt.failed + 1, after |-> attempt.failed,
                           backoffTime |-> backoffTime(reconnectAttempts_)]
    /\ UNCHANGED <<running, connected, initialInFlight, link>>
    /\ UNCHANGED registryVars
    /\ UNCHANGED <<signalingVars, managerVars>>

\* WebSocketClient::onConnected on thread t, for the connect of setupWebSocket
\* (initial) or for one of checkAndReconnect: impl_->connection is what the
\* connect ended with; with an error the disconnected callback runs, otherwise
\* connected is set and the connected callback runs (the registration goes
\* out and the detached thread of the first status starts).
WsOnConnected(t, initial, ok) ==
    /\ Idle(t)
    /\ IF initial THEN initialInFlight ELSE inFlight > 0
    /\ initialInFlight' = IF initial THEN FALSE ELSE initialInFlight
    /\ inFlight' = IF initial THEN inFlight ELSE inFlight - 1
    /\ link.step = "idle"
    /\ IF ok
       THEN /\ link.firstStatus < MaxFirstStatus
            /\ connected' = TRUE
            /\ onWebSocketConnected
            /\ link' = [link EXCEPT !.connection = TRUE, !.sent = <<"register">>,
                                    !.firstStatus = link.firstStatus + 1]
            /\ UNCHANGED registryVars
       ELSE /\ onWebSocketDisconnected(t)
            /\ attempt' = IF initial THEN attempt
                          ELSE [attempt EXCEPT !.failed = attempt.failed + 1]
            /\ link' = [link EXCEPT !.connection = FALSE, !.sent = <<>>]
            /\ UNCHANGED <<connected, reconnectAttempts_>>
    /\ UNCHANGED <<running, sinceLastAttempt>>
    /\ UNCHANGED <<signalingVars, managerVars>>

\* WebSocketClient::onClosed on thread t: connected is cleared and the
\* disconnected callback runs.
WsOnClosed(t) ==
    /\ connected
    /\ link.step = "idle"
    /\ connected' = FALSE
    /\ onWebSocketDisconnected(t)
    /\ link' = [link EXCEPT !.connection = FALSE]
    /\ UNCHANGED <<running, initialInFlight, inFlight, reconnectAttempts_,
                   sinceLastAttempt, attempt>>
    /\ UNCHANGED <<signalingVars, managerVars>>

\* The detached thread of onWebSocketConnected, 500 ms later: sendCameraStatus.
FirstStatus ==
    /\ link.firstStatus > 0
    /\ link' = [link EXCEPT !.sent = sendText(link.sent, "camstatus"),
                            !.firstStatus = link.firstStatus - 1]
    /\ UNCHANGED <<appState, running, connected, initialInFlight, inFlight,
                   reconnectAttempts_, sinceLastAttempt, attempt>>
    /\ UNCHANGED <<registryVars, signalingVars, managerVars>>

\* The registry under its synchronous callers: the signaling thread (addPeer,
\* removePeer, removeAllPeers) and the media engine's threads (onError), with
\* the pipeline's dynamic streams coming and going.
Next ==
    \/ \E p \in PeerIds, ok \in BOOLEAN : AddDynamicStream(p, ok)
    \/ \E p \in PeerIds : RemoveDynamicStream(p)
    \/ \E t \in Threads, p \in PeerIds, src \in Sources : AddPeer(t, p, src)
    \/ \E t \in Threads, p \in PeerIds : RemovePeer(t, p)
    \/ \E t \in Threads, p \in PeerIds : WaitForever("removePeer", t, p)
    \/ \E t \in Threads, p \in PeerIds : WaitForever("addPeer", t, p)
    \/ \E t \in Threads, p \in PeerIds : OnError(t, p)
    \/ \E t \in Threads : RemoveAllSnapshot(t)
    \/ \E t \in Threads : WaitForever("removeAllPeers", t, 0)
    \/ \E t \in Threads : RemoveAllStep(t)

Spec == Init /\ [][Next]_vars

\* The registry under addPeerAsync (the PeerJoined signal, one detached thread
\* per call) next to the synchronous addPeer.
NextAsync ==
    \/ \E p \in PeerIds, ok \in BOOLEAN : AddDynamicStream(p, ok)
    \/ \E p \in PeerIds : RemoveDynamicStream(p)
    \/ \E t \in Threads, p \in PeerIds, src \in Sources : AddPeer(t, p, src)
    \/ \E t \in Threads, p \in PeerIds, src \in Sources : AddPeerAsync(t, p, src)
    \/ \E t \in Threads : AsyncAddPeerSync(t)
    \/ \E t \in Threads : AsyncResolve(t)

SpecAsync == Init /\ [][NextAsync]_vars

\* The supervisor of the signaling link: the heartbeat thread, the callbacks of
\* the websocket client and the removeAllPeers that a disconnect starts.
NextSupervisor ==
    \/ \E ok \in BOOLEAN : Initialize(ok)
    \/ Run
    \/ Tick
    \/ \E ok \in BOOLEAN : CheckAndReconnect(ok)
    \/ \E t \in Threads, initial \in BOOLEAN, ok \in BOOLEAN : WsOnConnected(t, initial, ok)
    \/ \E t \in Threads : WsOnClosed(t)
    \/ \E t \in Threads : RemoveAllStep(t)
    \/ FirstStatus

SpecSupervisor == Init /\ [][NextSupervisor]_vars

\* The signaling link going down under a registry that holds peers: the first
\* connect and its callbacks, the removeAllPeers of the disconnect handler, and
\* addPeer with the pipeline's dynamic streams to fill the registry.
NextDisconnect ==
    \/ \E ok \in BOOLEAN : Initialize(ok)
    \/ Run
    \/ \E t \in Threads, initial \in BOOLEAN, ok \in BOOLEAN : WsOnConnected(t, initial, ok)
    \/ \E t \in Threads : WsOnClosed(t)
    \/ \E t \in Threads : RemoveAllStep(t)
    \/ FirstStatus
    \/ \E p \in PeerIds, ok \in BOOLEAN : AddDynamicStream(p, ok)
    \/ \E t \in Threads, p \in PeerIds, src \in Sources : AddPeer(t, p, src)

SpecDisconnect == Init /\ [][NextDisconnect]_vars

\* ------------------------------------ inbound messages (MessageHandler)

\* A message that ends in the handler: nothing but the log is written.
OnlyLogged(res, step) ==
    /\ last' = Done("handleMessage", 0, res, step)
    /\ UNCHANGED <<peers_, mutex_, pendingConnections_, streams, dynamicStreams,
                   usedDynamicPorts, pc, local, terminated, backgroundTasks_>>

\* A call of thread t on the registry that takes mutex_ and ends with r, or
\* that waits for a stuck owner of mutex_.
LockedCall(t, op, peerId, r) ==
    /\ IF mutex_ # NoOwner
       THEN /\ pc' = [pc EXCEPT ![t] = "waiting"]
            /\ last' = Done(op, peerId, "waiting", "lock")
            /\ UNCHANGED <<peers_, mutex_, streams, terminated>>
       ELSE /\ ApplyResult(t, r)
            /\ pc' = [pc EXCEPT ![t] = PcAfter(r.res)]
            /\ last' = Done(op, peerId, r.res, r.step)
    /\ UNCHANGED <<pendingConnections_, dynamicStreams, usedDynamicPorts, local,
                   backgroundTasks_>>

\* MessageHandler::handleMessage for the message m that parse returned, on
\* thread t: the drop, or the handler of the variant (handlePeerJoined queues
\* the add, handlePeerLeft calls removePeer, handleAnswer and
\* handleIceCandidate call the registry, handleCommand writes its log).
Dispatch(t, m) ==
    CASE m.kind = "nullopt" -> OnlyLogged("dropped", "parse")
      [] m.kind = "PeerJoined" ->
            /\ Len(backgroundTasks_) < MaxQueued
            /\ backgroundTasks_' = Append(backgroundTasks_,
                                          [peerId |-> PeerIdOf(m.peerId), source |-> m.source])
            /\ last' = Done("handleMessage", PeerIdOf(m.peerId), "queued", "none")
            /\ UNCHANGED <<peers_, mutex_, pendingConnections_, streams, dynamicStreams,
                           usedDynamicPorts, pc, local, terminated>>
      [] m.kind = "PeerLeft" ->
            \E ub \in RelockOutcomes :
               LockedCall(t, "removePeer", PeerIdOf(m.peerId),
                          removePeerResult(peers_, streams, PeerIdOf(m.peerId), ub))
      [] m.kind = "Answer" ->
            IF sdpStr(m.sdp) = "" THEN OnlyLogged("logged", "sdp")
            ELSE \E sdpOk \in BOOLEAN, ub \in RelockOutcomes :
                    LockedCall(t, "handleAnswer", PeerIdOf(m.peerId),
                               handleDescriptionResult(peers_, streams, PeerIdOf(m.peerId),
                                                       "answer", sdpOk, ub))
      [] m.kind = "IceCandidate" ->
            LockedCall(t, "handleIceCandidate", PeerIdOf(m.peerId),
                       handleIceCandidateResult(peers_, streams, PeerIdOf(m.peerId)))
      [] OTHER -> OnlyLogged("logged", "command")

\* Whether the answer m is handed to a session: handleAnswer gets the lock and
\* finds the peer.
ReachesSession(m) ==
    /\ m.kind = "Answer" /\ sdpStr(m.sdp) # ""
    /\ mutex_ = NoOwner
    /\ Present(peers_, PeerIdOf(m.peerId))

\* Application::onWebSocketMessage(w) on thread t: a camstatus_reply confirms
\* the registration (REGISTERED unless the state is REGISTERED or RUNNING), then
\* MessageHandler::handleMessage parses and dispatches the text.
OnWebSocketMessage(t, w) ==
    /\ Idle(t)
    /\ appState' =
          IF contains(w, "action") /\ w.o["action"] = Str("camstatus_reply")
             /\ appState \notin {"REGISTERED", "RUNNING"}
          THEN "REGISTERED" ELSE appState
    /\ Dispatch(t, parse(w))
    /\ remoteDescription' =
          IF ReachesSession(parse(w))
          THEN [peerId |-> PeerIdOf(parse(w).peerId), type |-> "answer",
                sdp |-> sdpStr(parse(w).sdp)]
          ELSE remoteDescription
    /\ UNCHANGED <<running, connected, initialInFlight, inFlight, reconnectAttempts_,
                   sinceLastAttempt, attempt, link, codec, session, managerVars>>

\* A thread of the pool backgroundTasks_ runs the oldest queued task:
\* addPeerAsync(peerId, source), which starts the detached thread w.
PoolRun(w) ==
    /\ backgroundTasks_ # <<>>
    /\ StartAsyncAdd(w, Head(backgroundTasks_).peerId, Head(backgroundTasks_).source)
    /\ backgroundTasks_' = Tail(backgroundTasks_)
    /\ UNCHANGED <<supervisorVars, codec, remoteDescription, session, managerVars>>

\* The thread of the GLib main loop, on which the callbacks of the websocket run.
MainLoop == 1

\* The texts of the server: the envelope of the server carries no peerType.
Inbound == {w \in Wires : ~contains(w, "peerType")}

\* The peer for which the pipeline builds a dynamic stream below.
FirstPeer == CHOOSE p \in PeerIds : \A q \in PeerIds : p <= q

\* The registry under the messages of the signaling server: the texts that
\* arrive, the queued and the detached adds, and the pipeline's dynamic stream
\* for one peer (the adds of the other peers fail for want of a stream).  No
\* detached add gets as far as erasing its ticket here: addPeerSync is left
\* only through the relock of mutex_.
NextSignaling ==
    \/ \E ok \in BOOLEAN : AddDynamicStream(FirstPeer, ok)
    \/ \E w \in Inbound : OnWebSocketMessage(MainLoop, w)
    \/ \E w \in Threads \ {MainLoop} : PoolRun(w)
    \/ \E w \in Threads \ {MainLoop} : AsyncAddPeerSync(w)

SpecSignaling == Init /\ [][NextSignaling]_vars

\* MessageParser::parse on a text from the wire.
Receive(w) ==
    /\ codec' = [sent |-> Nullopt, wire |-> w, parsed |-> parse(w)]
    /\ UNCHANGED <<registryVars, supervisorVars, backgroundTasks_, remoteDescription, session,
                   managerVars>>

\* MessageParser::serialize of a message, and parse of the text it gives.
RoundTrip(m) ==
    /\ codec' = [sent |-> m, wire |-> serialize(m), parsed |-> parse(serialize(m))]
    /\ UNCHANGED <<registryVars, supervisorVars, backgroundTasks_, remoteDescription, session,
                   managerVars>>

\* The protocol by itself: texts from the wire, and messages sent and read back.
NextCodec ==
    \/ \E w \in Wires : Receive(w)
    \/ \E m \in Messages : RoundTrip(m)

SpecCodec == Init /\ [][NextCodec]_vars

\* ------------------------------------------------- a session by itself

\* The peer id in the configuration of the session.
SessionPeer == PeerName(FirstPeer)

\* What the calls and the callbacks of the session leave alone.
besideSession == <<registryVars, supervisorVars, codec, backgroundTasks_, remoteDescription,
                   managerVars>>

\* The session when a call or a callback ends: its fields, the promise, the
\* result, the event it emitted and the text that went out.
SessionAfter(ctx, promise, res, event, sent) ==
    [ctx |-> ctx, promise |-> promise, event |-> event, res |-> res, sent |-> sent]

\* connectToStream(udpSrc) by a caller that does not own mutex_; udp: the
\* caller passes an element.
SessionConnectToStream(udp, connOk) ==
    /\ session' =
          LET r == connectToStream(FALSE, [session.ctx EXCEPT !.udpSrc = udp], connOk, "block")
          IN  SessionAfter(r.ctx, session.promise, r.res,
                           StateChangeEvent(session.ctx.state_, r.ctx.state_), NothingSent)
    /\ UNCHANGED besideSession

\* createOffer(): called by the owner, by the idle callback that
\* connectToStream leaves, or by Impl::onNegotiationNeeded.
SessionCreateOffer ==
    /\ session' =
          LET r == createOffer(session.ctx, session.promise)
          IN  SessionAfter(session.ctx, r.promise, r.res, NoEvent, NothingSent)
    /\ UNCHANGED besideSession

\* setRemoteDescription(type, sdp) by a caller that does not own mutex_.
SessionSetRemoteDescription(type, sdpOk) ==
    /\ session' =
          LET r == setRemoteDescription(FALSE, session.ctx, type, sdpOk, "block")
          IN  SessionAfter(r.ctx, IF r.promise = "none" THEN session.promise ELSE r.promise,
                           r.res, StateChangeEvent(session.ctx.state_, r.ctx.state_),
                           NothingSent)
    /\ UNCHANGED besideSession

\* addIceCandidate(candidate, mlineIndex).
SessionAddIceCandidate ==
    /\ session' = SessionAfter(session.ctx, session.promise, addIceCandidate(session.ctx),
                               NoEvent, NothingSent)
    /\ UNCHANGED besideSession

\* disconnect() by a caller that does not own mutex_.
SessionDisconnect ==
    /\ session' =
          LET r == disconnect(FALSE, session.ctx, "block")
          IN  SessionAfter(r.ctx, session.promise, r.res,
                           StateChangeEvent(session.ctx.state_, r.ctx.state_), NothingSent)
    /\ UNCHANGED besideSession

\* The media engine answers create-offer (a webrtcbin that cleanup() has
\* stopped answers nothing): Impl::onOfferCreated, and the registry and the
\* handler forward the offer.
OnOfferCreated(reply) ==
    /\ session.promise = "offer" /\ session.ctx.webrtcbin
    /\ session' = SessionAfter(session.ctx, "none", "none", onOfferCreated(reply),
                               IF reply = "" THEN NothingSent
                               ELSE sendOffer(SessionPeer, reply))
    /\ UNCHANGED besideSession

\* The media engine answers create-answer: Impl::onAnswerCreated.
OnAnswerCreated(reply) ==
    /\ session.promise = "answer" /\ session.ctx.webrtcbin
    /\ session' = SessionAfter(session.ctx, "none", "none", onAnswerCreated(reply),
                               NothingSent)
    /\ UNCHANGED besideSession

\* The media engine has found a local candidate: Impl::onIceCandidate, and the
\* registry and the handler forward it.
OnIceCandidate(candidate, mlineIndex) ==
    /\ session.ctx.webrtcbin
    /\ session' = SessionAfter(session.ctx, session.promise, "none",
                               [name |-> "IceCandidate", candidate |-> candidate,
                                mlineIndex |-> mlineIndex],
                               sendIceCandidate(SessionPeer, candidate, mlineIndex))
    /\ UNCHANGED besideSession

\* The replies of the media engine: an SDP text, or none.
Replies == SdpTexts \cup {""}

NextSession ==
    \/ \E udp, connOk \in BOOLEAN : SessionConnectToStream(udp, connOk)
    \/ SessionCreateOffer
    \/ \E type \in {"offer", "answer"}, sdpOk \in BOOLEAN :
          SessionSetRemoteDescription(type, sdpOk)
    \/ SessionAddIceCandidate
    \/ SessionDisconnect
    \/ \E reply \in Replies : OnOfferCreated(reply)
    \/ \E reply \in Replies : OnAnswerCreated(reply)
    \/ \E c \in CandidateTexts, i \in 0 .. 1 : OnIceCandidate(c, i)

SpecSession == Init /\ [][NextSession]_vars

\* ------------------------------------------------- ports (StreamManager)

\* What the calls on the StreamManager leave alone.
besideManager == <<peers_, mutex_, pendingConnections_, dynamicStreams, usedDynamicPorts,
                   pc, local, terminated, supervisorVars, signalingVars>>

\* StreamManager::createStream(peerId, source): the port, then the slot of the
\* pipeline; a failure of addStream releases the port.  (For the sources used
\* here the substring tests of createStream agree with parseSource and
\* parseStreamType.)
CreateStream(peerId, source) ==
    /\ ~terminated
    /\ LET port == allocatePort(usedPorts_)
           as == addStream(streams, peerId, parseSource(source), parseStreamType(source))
       IN  IF streams_[peerId] # NoStream
           THEN /\ last' = Done("createStream", peerId, "false", "exists")
                /\ UNCHANGED <<streams, usedPorts_, streams_>>
           ELSE IF port < 0
           THEN /\ last' = Done("createStream", peerId, "false", "port")
                /\ UNCHANGED <<streams, usedPorts_, streams_>>
           ELSE IF ~as.ok
           THEN /\ last' = Done("createStream", peerId, "false", "addStream")
                /\ usedPorts_' = releasePort(usedPorts_ \cup {port}, port)
                /\ UNCHANGED <<streams, streams_>>
           ELSE /\ last' = Done("createStream", peerId, "true", "none")
                /\ streams' = as.streams
                /\ usedPorts_' = usedPorts_ \cup {port}
                /\ streams_' = [streams_ EXCEPT ![peerId] =
                                  [device |-> parseSource(source),
                                   type |-> parseStreamType(source), port |-> port]]
    /\ UNCHANGED <<besideManager, released>>

\* StreamManager::removeStream(peerId).
ManagerRemoveStream(peerId) ==
    /\ ~terminated
    /\ IF streams_[peerId] = NoStream
       THEN /\ last' = Done("removeStream", peerId, "false", "absent")
            /\ UNCHANGED <<streams, usedPorts_, streams_>>
       ELSE /\ last' = Done("removeStream", peerId, "true", "none")
            /\ streams' = removeStream(streams, peerId)
            /\ usedPorts_' = releasePort(usedPorts_, streams_[peerId].port)
            /\ streams_' = [streams_ EXCEPT ![peerId] = NoStream]
    /\ UNCHANGED <<besideManager, released>>

\* StreamManager::removeAllStreams (also run by the destructor): every stream
\* leaves the pipeline and gives its port back, then usedPorts_ is cleared.
RECURSIVE removeStreamsOf(_, _)
removeStreamsOf(s, ids) ==
    IF ids = {} THEN s
    ELSE LET p == CHOOSE q \in ids : TRUE
         IN  removeStreamsOf(removeStream(s, p), ids \ {p})

RemoveAllStreams ==
    /\ ~terminated
    /\ last' = Done("removeAllStreams", 0, "true", "manager")
    /\ streams' = removeStreamsOf(streams, {p \in PeerIds : streams_[p] # NoStream})
    /\ usedPorts_' = {}
    /\ streams_' = [p \in PeerIds |-> NoStream]
    /\ UNCHANGED <<besideManager, released>>

\* The ports that a caller hands to a release: the first ports of each pool.
ReleasedPorts(pool) ==
    IF pool = "dynamic" THEN DynPortFirst..(DynPortFirst + NumPeers)
    ELSE {StreamPortFirst + 2 * k : k \in 0..NumPeers}

\* releaseDynamicPort(port) and releasePort(port) applied to the ports in use
\* of their pool, once and twice in a row.
Release(pool, port) ==
    /\ released' =
          IF pool = "dynamic"
          THEN [pool |-> pool, used |-> usedDynamicPorts, port |-> port,
                once |-> releaseDynamicPort(usedDynamicPorts, port),
                twice |-> releaseDynamicPort(releaseDynamicPort(usedDynamicPorts, port),
                                             port)]
          ELSE [pool |-> pool, used |-> usedPorts_, port |-> port,
                once |-> releasePort(usedPorts_, port),
                twice |-> releasePort(releasePort(usedPorts_, port), port)]
    /\ UNCHANGED <<registryVars, supervisorVars, signalingVars, usedPorts_, streams_>>

\* The pools of ports by themselves: the streams of the StreamManager and the
\* dynamic streams of the pipeline.
NextPorts ==
    \/ \E p \in PeerIds, src \in Sources : CreateStream(p, src)
    \/ \E p \in PeerIds : ManagerRemoveStream(p)
    \/ RemoveAllStreams
    \/ \E pool \in {"dynamic", "manager"} : \E port \in ReleasedPorts(pool) :
          Release(pool, port)
    \/ \E p \in PeerIds, ok \in BOOLEAN : AddDynamicStream(p, ok)
    \/ \E p \in PeerIds : RemoveDynamicStream(p)

SpecPorts == Init /\ [][NextPorts]_vars

\* ------------------------------- the link (WebSocketClient, Application)

\* WebSocketClient::onConnected on the main loop, as far as the connected
\* callback: the connection of the finished connect replaces impl_->connection
\* and connected is set.
LinkConnected(initial) ==
    /\ Idle(MainLoop)
    /\ link.step = "idle"
    /\ link.firstStatus < MaxFirstStatus
    /\ IF initial THEN initialInFlight ELSE inFlight > 0
    /\ initialInFlight' = IF initial THEN FALSE ELSE initialInFlight
    /\ inFlight' = IF initial THEN inFlight ELSE inFlight - 1
    /\ connected' = TRUE
    /\ link' = [link EXCEPT !.step = "connected", !.connection = TRUE, !.sent = <<>>]
    /\ UNCHANGED <<appState, running, reconnectAttempts_, sinceLastAttempt, attempt>>
    /\ UNCHANGED <<registryVars, signalingVars, managerVars>>

\* The connected callback, Application::onWebSocketConnected: CONNECTED, the
\* registration, REGISTERED, and the detached thread of the first status.
ConnectedCallback ==
    /\ link.step = "connected"
    /\ onWebSocketConnected
    /\ link' = [link EXCEPT !.step = "idle",
                            !.sent = sendText(link.sent, "register"),
                            !.firstStatus = link.firstStatus + 1]
    /\ UNCHANGED <<running, connected, initialInFlight, inFlight, sinceLastAttempt>>
    /\ UNCHANGED <<registryVars, signalingVars, managerVars>>

\* A round of Application::heartbeatThread with the link up: the camera status
\* goes out when the state is REGISTERED or RUNNING.
HeartbeatStatus ==
    /\ running
    /\ isConnected
    /\ appState \in {"REGISTERED", "RUNNING"}
    /\ link' = [link EXCEPT !.sent = sendText(link.sent, "camstatus")]
    /\ UNCHANGED <<appState, running, connected, initialInFlight, inFlight,
                   reconnectAttempts_, sinceLastAttempt, attempt>>
    /\ UNCHANGED <<registryVars, signalingVars, managerVars>>

\* The status acknowledgement of the server.
StatusReplies ==
    {w \in Inbound : contains(w, "action") /\ w.o["action"] = Str("camstatus_reply")}

\* The text w arrives on a connection that was opened and not closed.
LinkReply(w) ==
    /\ connected
    /\ link.step = "idle"
    /\ OnWebSocketMessage(MainLoop, w)

\* The link from the first connect on: the main loop with the callbacks of the
\* websocket client, the heartbeat thread, and the detached status sends.
NextLink ==
    \/ \E ok \in BOOLEAN : Initialize(ok)
    \/ Run
    \/ Tick
    \/ \E ok \in BOOLEAN : CheckAndReconnect(ok)
    \/ \E initial \in BOOLEAN : LinkConnected(initial)
    \/ ConnectedCallback
    \/ \E initial \in BOOLEAN : WsOnConnected(MainLoop, initial, FALSE)
    \/ WsOnClosed(MainLoop)
    \/ RemoveAllStep(MainLoop)
    \/ HeartbeatStatus
    \/ FirstStatus
    \/ \E w \in StatusReplies : LinkReply(w)

SpecLink == Init /\ [][NextLink]_vars

\* The link with a heartbeat thread that keeps running: while running_ is set
\* the loop of heartbeatThread sleeps and comes round again, so time passes and
\* a checkAndReconnect whose wait is over is made.
SpecLinkFair ==
    /\ SpecLink
    /\ WF_vars(Tick)
    /\ WF_vars(\E ok \in BOOLEAN : CheckAndReconnect(ok))

\* ---------------------------------------------- statistics (WebRTCManager)

\* What the media engine reports on get-stats, per session: the bytes it sent.
StatsReplies == [PeerIds -> 0..MaxBytes]

\* WebRTCPeer::getStatistics: without webrtcbin the default Statistics; with it
\* the get-stats query is made and waited for, its reply is logged and not
\* read, and the default Statistics is returned.
getStatistics(ctx, reply) == [bytesSent |-> 0]

\* The sum of bytesSent over the sessions ids, as the loop adds it up.
RECURSIVE totalBytesSent(_, _, _)
totalBytesSent(ids, peers, reply) ==
    IF ids = {} THEN 0
    ELSE LET p == CHOOSE q \in ids : TRUE
         IN  getStatistics(peers[p], reply[p]).bytesSent
                + totalBytesSent(ids \ {p}, peers, reply)

\* WebRTCManager::getGlobalStatistics over the map peers: averageBitrate is the
\* quotient bits / perMbps, 0.0 when no session is connected.
getGlobalStatistics(peers, reply) ==
    LET active == {p \in PeerIds : Present(peers, p) /\ peers[p].state_ = "CONNECTED"}
        total == totalBytesSent(active, peers, reply)
    IN  [totalPeers |-> Cardinality({p \in PeerIds : Present(peers, p)}),
         activePeers |-> Cardinality(active),
         totalBytesSent |-> total,
         averageBitrate |->
            IF Cardinality(active) > 0
            THEN [bits |-> total * 8, perMbps |-> Cardinality(active) * 1000000]
            ELSE [bits |-> 0, perMbps |-> 1]]

\* getGlobalStatistics() on thread t, with reply what the sessions have sent:
\* the map is read under mutex_.
GetGlobalStatistics(t, reply) ==
    /\ Idle(t)
    /\ mutex_ = NoOwner
    /\ last' = [op |-> "getGlobalStatistics", id |-> 0, res |-> "returned",
                step |-> "none", reply |-> reply,
                stats |-> getGlobalStatistics(peers_, reply)]
    /\ UNCHANGED <<peers_, mutex_, pendingConnections_, streams, dynamicStreams,
                   usedDynamicPorts, pc, local, terminated>>
    /\ UNCHANGED <<supervisorVars, signalingVars, managerVars>>

\* The registry under the messages of the signaling server, read by
\* getGlobalStatistics from another thread.
NextStatistics ==
    \/ \E ok \in BOOLEAN : AddDynamicStream(FirstPeer, ok)
    \/ \E w \in Inbound : OnWebSocketMessage(MainLoop, w)
    \/ \E w \in Threads \ {MainLoop} : PoolRun(w)
    \/ \E w \in Threads \ {MainLoop} : AsyncAddPeerSync(w)
    \/ \E t \in Threads \ {MainLoop}, reply \in StatsReplies : GetGlobalStatistics(t, reply)
    \/ \E t \in Threads \ {MainLoop} : WaitForever("getGlobalStatistics", t, 0)

SpecStatistics == Init /\ [][NextStatistics]_vars

\* ------------------------------------- callbacks of a session in the registry

\* The callbacks that a session hands to the registry with its peer id.
CallbackKinds == {"onIceCandidate", "onOfferCreated"}

\* Impl::onIceCandidate or Impl::onOfferCreated on the media engine's thread t
\* for the session of peerId: the callback that setupPeerCallbacks has set is
\* read and called with the peer id it has captured.
SessionCallback(t, peerId, kind) ==
    /\ Idle(t)
    /\ Present(peers_, peerId)
    /\ peers_[peerId].webrtcbin
    /\ pc' = [pc EXCEPT ![t] = kind]
    /\ local' = [local EXCEPT ![t] = [NoLocal EXCEPT !.id = peerId]]
    /\ last' = Done(kind, peerId, "called", "session")
    /\ UNCHANGED <<peers_, mutex_, pendingConnections_, streams, dynamicStreams,
                   usedDynamicPorts, terminated>>
    /\ UNCHANGED <<supervisorVars, signalingVars, managerVars>>

\* WebRTCManager::onIceCandidate or onOfferCreated on thread t: without mutex_
\* and without a look at peers_, the message goes to messageCallback_.
ManagerCallback(t) ==
    /\ pc[t] \in CallbackKinds
    /\ ~terminated
    /\ pc' = [pc EXCEPT ![t] = "idle"]
    /\ local' = [local EXCEPT ![t] = NoLocal]
    /\ last' = Done(pc[t], local[t].id, "sent", "messageCallback")
    /\ UNCHANGED <<peers_, mutex_, pendingConnections_, streams, dynamicStreams,
                   usedDynamicPorts, terminated>>
    /\ UNCHANGED <<supervisorVars, signalingVars, managerVars>>

\* The registry under its callers and the callbacks of its sessions, which
\* arrive on the threads of the media engine.
NextCallbacks ==
    \/ \E p \in PeerIds, ok \in BOOLEAN : AddDynamicStream(p, ok)
    \/ \E t \in Threads, p \in PeerIds, src \in Sources : AddPeer(t, p, src)
    \/ \E t \in Threads, p \in PeerIds : RemovePeer(t, p)
    \/ \E t \in Threads, p \in PeerIds, kind \in CallbackKinds : SessionCallback(t, p, kind)
    \/ \E t \in Threads : ManagerCallback(t)

SpecCallbacks == Init /\ [][NextCallbacks]_vars

\* ----------------------------------------- adds in flight at a disconnect

\* The ROOM_PEER_JOINED texts of the server.
JoinTexts == {w \in Inbound : parse(w).kind = "PeerJoined"}

\* The signaling link coming and going on the main loop while the adds that
\* the peer-joined signals have started are queued in the pool or run on
\* their detached threads.
NextOutage ==
    \/ \E ok \in BOOLEAN : Initialize(ok)
    \/ \E initial, ok \in BOOLEAN : WsOnConnected(MainLoop, initial, ok)
    \/ WsOnClosed(MainLoop)
    \/ RemoveAllStep(MainLoop)
    \/ FirstStatus
    \/ \E ok \in BOOLEAN : AddDynamicStream(FirstPeer, ok)
    \/ \E w \in JoinTexts : LinkReply(w)
    \/ \E w \in Threads \ {MainLoop} : PoolRun(w)
    \/ \E w \in Threads \ {MainLoop} : AsyncAddPeerSync(w)

SpecOutage == Init /\ [][NextOutage]_vars

\* ------------------------------------------- the counter of failed attempts

\* The least value of a 32-bit int.
IntMin == (-2147483647) - 1

\* What a shift by 32 or more gives: the count taken modulo 32, or zero.
ShiftOutcomes == {"masked", "zero"}

\* (1 << k) on a 32-bit int for every k >= 0: the sign bit for k = 31, and for
\* k >= 32 (undefined) one of ShiftOutcomes.
RECURSIVE ShiftLeft32(_, _)
ShiftLeft32(k, ub) ==
    IF k <= 30 THEN 2 ^ k
    ELSE IF k = 31 THEN IntMin
    ELSE IF ub = "masked" THEN ShiftLeft32(k % 32, ub)
    ELSE 0

\* Application::checkAndReconnect on the heartbeat thread when the wait is over
\* and WebSocketClient::connect returns false (the request cannot be built from
\* the configured address): the counter grows by one, without a limit in the
\* program.
CheckAndReconnectFails(ub) ==
    /\ running
    /\ ~connected
    /\ reconnectAttempts_ < MaxCounter
    /\ sinceLastAttempt >= Min(BackoffCap, ShiftLeft32(reconnectAttempts_, ub))
    /\ appState' = "CONNECTING"
    /\ sinceLastAttempt' = 0
    /\ reconnectAttempts_' = reconnectAttempts_ + 1
    /\ attempt' = [failed |-> attempt.failed + 1, after |-> attempt.failed,
                   backoffTime |-> Min(BackoffCap, ShiftLeft32(reconnectAttempts_, ub))]
    /\ UNCHANGED <<running, connected, initialInFlight, inFlight, link>>
    /\ UNCHANGED registryVars
    /\ UNCHANGED <<signalingVars, managerVars>>

\* The heartbeat thread against an address from which no request can be built.
NextBackoff ==
    \/ \E ok \in BOOLEAN : Initialize(ok)
    \/ Run
    \/ Tick
    \/ \E ub \in ShiftOutcomes : CheckAndReconnectFails(ub)

SpecBackoff == Init /\ [][NextBackoff]_vars

\* --------------------------------------------------------- properties

\* The steps of addPeer that can fail.
FailingSteps == {"duplicate", "addStream", "dynamicInfo", "udpsrc", "connectToStream"}

\* Every thread is back at its caller and the process is alive.
Quiescent == ~terminated /\ \A t \in Threads : pc[t] = "idle"

\* C1: addPeer(peerId, source) for an id that is not in the registry, with a free
\* route and with no step failing, returns success (and the peer count grows by
\* one).
C1_AddPeerSucceeds ==
    (last.op = "addPeer" /\ last.step \notin FailingSteps) => last.res = "true"

C3_AddPeerRollsBack ==
    (last.op = "addPeer" /\ last.step \in FailingSteps \ {"duplicate"})
        => (last.res = "false" /\ ~Present(peers_, last.id))

\* The static slots that a peer holds.
SlotsOf(peerId) == {i \in 1..Len(streams) : streams[i].active /\ streams[i].peerId = peerId}

C5_RemovePeerCompletes ==
    (last.op = "removePeer" /\ last.step # "absent" /\ last.res # "waiting")
        => (last.res = "true" /\ ~Present(peers_, last.id) /\ SlotsOf(last.id) = {})

\* C6: removePeer called from a session's error callback completes: the thread
\* does not end up stuck on mutex_.
C6_OnErrorCompletes ==
    (last.op = "onError" /\ last.res # "waiting")
        => (last.res = "true" /\ mutex_ = NoOwner)

\* C7: removeAllPeers terminates: none of its removePeer calls ends with the
\* thread stuck on mutex_ or with an exception.
C7_RemoveAllTerminates ==
    (last.op = "removeAllPeers" /\ last.res # "waiting")
        => last.res \in {"removing", "returned"}

\* C8: after a negotiation error on a registered session the registry has
\* removed the peer and its route is released.
C8_ErrorRemovesPeer ==
    (last.op = "onError" /\ last.res # "waiting")
        => (~Present(peers_, last.id) /\ SlotsOf(last.id) = {})

\* C9: once every call has returned, the peer count is the number of successful
\* adds minus the number of successful removes: a call after which every thread
\* is back at its caller has made the count grow only if it is an add that
\* returned success.
C9_CountFollowsSuccess ==
    [][(PeerCount' > PeerCount /\ ~terminated' /\ \A t \in Threads : pc'[t] = "idle")
          => (last'.op \in {"addPeer", "addPeerSync"} /\ last'.res = "true")]_vars

\* C10: the wait that checkAndReconnect applies after k failed reconnect
\* attempts in a row is min(60, 2^k) seconds: 1, 2, 4, 8, 16, 32, 60, 60, ...
C10_BackoffDoubles ==
    attempt.after >= 0 => attempt.backoffTime = Min(BackoffCap, 2 ^ attempt.after)

\* C11: after a disconnect of the signaling link the supervisor is Connecting,
\* the next wait is 1 second, and every peer that the removeAllPeers of the
\* disconnect handler has dealt with is out of the registry.
C11_DisconnectRemovesPeers ==
    (last.op = "removeAllPeers" /\ last.id # 0 /\ last.res # "waiting")
        => /\ ~Present(peers_, last.id)
           /\ backoffTime(reconnectAttempts_) = 1

\* The fields that the round trip has to keep, "" and -1 where a message has none.
KeptFields(m) ==
    [kind |-> m.kind,
     peerId |-> IF "peerId" \in DOMAIN m THEN m.peerId ELSE "",
     sdp |-> IF "sdp" \in DOMAIN m THEN sdpStr(m.sdp) ELSE "",
     candidate |-> IF "candidate" \in DOMAIN m THEN m.candidate ELSE "",
     mlineIndex |-> IF "mlineIndex" \in DOMAIN m THEN m.mlineIndex ELSE -1]

\* C12: for every message m with valid fields parse(serialize(m)) is a message
\* of the same variant with the same peer id, SDP text, candidate text and
\* media line index.
C12_RoundTrip ==
    codec.sent.kind # "nullopt" => KeptFields(codec.parsed) = KeptFields(codec.sent)

\* C13: parse never returns a message with a required field missing: every
\* message that parse returns has a peer id, an answer has its SDP, a candidate
\* its text and a media line index >= 0, a command its name.
C13_NoPartialMessage ==
    LET m == codec.parsed
    IN  m.kind # "nullopt" =>
           /\ m.peerId # ""
           /\ m.kind = "Answer" => ~empty(m.sdp)
           /\ m.kind = "IceCandidate" => m.candidate # "" /\ m.mlineIndex >= 0
           /\ m.kind = "Command" => m.command # ""

\* The candidate texts that C14 is about: an envelope with the action candidate,
\* a message with a non-empty peer_id, an ice object with a non-empty candidate
\* and an integer sdpMLineIndex >= 0, with or without peerType.
IsCandidateText(w) ==
    /\ contains(w, "action") /\ w.o["action"] = Str("candidate")
    /\ contains(w, "message")
    /\ contains(w.o["message"], "peer_id")
    /\ w.o["message"].o["peer_id"].t = "string"
    /\ w.o["message"].o["peer_id"].s # ""
    /\ contains(w.o["message"], "ice")
    /\ contains(w.o["message"].o["ice"], "candidate")
    /\ w.o["message"].o["ice"].o["candidate"].t = "string"
    /\ w.o["message"].o["ice"].o["candidate"].s # ""
    /\ contains(w.o["message"].o["ice"], "sdpMLineIndex")
    /\ w.o["message"].o["ice"].o["sdpMLineIndex"].t = "number"
    /\ ~w.o["message"].o["ice"].o["sdpMLineIndex"].neg

\* C14: parse of such a text is an IceCandidate with exactly the peer id, the
\* candidate and the media line index of the text.
C14_CandidateParsed ==
    IsCandidateText(codec.wire) =>
        LET msg == codec.wire.o["message"]
        IN  /\ codec.parsed.kind = "IceCandidate"
            /\ codec.parsed.peerId = msg.o["peer_id"].s
            /\ codec.parsed.candidate = msg.o["ice"].o["candidate"].s
            /\ codec.parsed.mlineIndex >= 0
            /\ FromInt(codec.parsed.mlineIndex) = msg.o["ice"].o["sdpMLineIndex"]

\* An answer text whose sdp member is the session description {type, sdp: t}
\* or the string t.
IsAnswerText(w, t) ==
    /\ contains(w, "action") /\ w.o["action"] = Str("answer")
    /\ contains(w, "message") /\ contains(w.o["message"], "sdp")
    /\ w.o["message"].o["sdp"] \in {SessionDescription("answer", t), Str(t)}

\* C15: an answer whose SDP t comes as a nested object {type, sdp: t} or as the
\* plain string t hands the same text t to the session's setRemoteDescription.
C15_AnswerSdpNormalized ==
    [][(last'.op = "handleAnswer" /\ last'.step \notin {"lock", "absent"})
       => \A w \in Inbound, t \in SdpTexts :
             (IsAnswerText(w, t) /\ OnWebSocketMessage(MainLoop, w))
             => remoteDescription' = [peerId |-> last'.id, type |-> "answer",
                                      sdp |-> t]]_vars

C15_Witness ==
    /\ last.op = "handleAnswer" /\ last.step = "setState"
    /\ remoteDescription.sdp \in SdpTexts
    /\ remoteDescription.peerId = last.id

\* The malformed texts among those of the server.
MalformedInbound == {w \in Inbound : Malformed(w)}

\* C16: a text with an unknown action, invalid JSON or a missing required field
\* is only logged: the handler returns, the registry, the sessions, the ports,
\* the queued adds and the supervisor are as before, and the thread is free
\* for the next text.
C16_MalformedDropped ==
    [][\/ /\ UNCHANGED <<peers_, mutex_, pendingConnections_, streams, dynamicStreams,
                          usedDynamicPorts, pc, local, terminated>>
          /\ UNCHANGED <<supervisorVars, backgroundTasks_, remoteDescription>>
          /\ last'.op = "handleMessage" /\ last'.res \in {"dropped", "logged"}
          /\ pc'[MainLoop] = "idle" /\ ~terminated'
       \/ \A w \in MalformedInbound : ~OnWebSocketMessage(MainLoop, w)]_vars

C16_Witness ==
    /\ last.op = "handleMessage" /\ last.res = "dropped"
    /\ PeerCount > 0
    /\ pc[MainLoop] = "idle"

\* C18: an answer for a session that is Connecting ends with success, the
\* session Connected and the registry's record of its state Connected.
C18_AnswerConnects ==
    [][\A w \in Inbound, p \in PeerIds :
          (/\ Present(peers_, p) /\ peers_[p].state_ = "CONNECTING"
           /\ OnWebSocketMessage(MainLoop, w)
           /\ last'.op = "handleAnswer" /\ last'.id = p /\ last'.step = "setState")
          => /\ last'.res = "true"
             /\ peers_'[p].state_ = "CONNECTED"
             /\ peers_'[p].infoState = "CONNECTED"]_vars

\* C17: Closed is terminal for a session: once disconnect() has closed it, no
\* call and no callback changes its state or emits a state-change event.
C17_ClosedTerminal ==
    [][session.ctx.state_ = "CLOSED"
       => /\ session'.ctx.state_ = "CLOSED"
          /\ session'.event.name # "StateChange"]_vars

\* C19: a remote offer starts the creation of the local answer; when the
\* answer is there the listener gets an AnswerCreated event with its SDP, and
\* the session stays Connecting.
C19_AnswerCreatedEmitted ==
    [][/\ \A sdpOk \in BOOLEAN :
             (session.ctx.webrtcbin /\ sdpOk /\ SessionSetRemoteDescription("offer", sdpOk))
             => session'.promise = "answer" /\ session'.ctx.state_ = session.ctx.state_
       /\ \A reply \in SdpTexts :
             (session.ctx.state_ = "CONNECTING" /\ OnAnswerCreated(reply))
             => /\ session'.event = [name |-> "AnswerCreated", sdp |-> reply]
                /\ session'.ctx.state_ = "CONNECTING"]_vars

\* C20: createOffer is accepted in New and in Connecting; when the media
\* engine has created the offer the listener gets OfferCreated(sdp), the offer
\* goes out for the peer id of the session, and the session is Connecting.
C20_OfferCreatedEmitted ==
    [][/\ (session.ctx.state_ \in {"NEW", "CONNECTING"} /\ SessionCreateOffer)
          => session'.res = "true" /\ session'.promise = "offer"
       /\ \A reply \in SdpTexts :
             (session.ctx.state_ \in {"NEW", "CONNECTING"} /\ OnOfferCreated(reply))
             => /\ session'.event = [name |-> "OfferCreated", sdp |-> reply]
                /\ session'.sent = sendOffer(SessionPeer, reply)
                /\ session'.ctx.state_ = "CONNECTING"]_vars

\* C21: a candidate is handed to the media engine only for a session that is
\* Connecting or Connected; for a session that is Closed or Failed it is
\* ignored: the call changes nothing in the registry and the peer stays.
C21_CandidateGated ==
    [][(last'.op = "handleIceCandidate" /\ last'.step = "none")
       => \A p \in PeerIds :
             (/\ last'.id = p /\ Present(peers_, p)
              /\ \E w \in Inbound : OnWebSocketMessage(MainLoop, w))
             => /\ last'.res = "true" => peers_[p].state_ \in {"CONNECTING", "CONNECTED"}
                /\ peers_[p].state_ \in {"CLOSED", "FAILED"}
                      => last'.res = "false" /\ peers_' = peers_]_vars

\* C22: disconnect() leaves the session Closed with its media handle released
\* (here: inside removePeer, after which the session is either out of the map
\* or Closed without webrtcbin); on a session that is Closed already it changes
\* nothing.
C22_DisconnectReleases ==
    [][(last'.op = "removePeer" /\ last'.step # "lock")
       => \A p \in PeerIds :
             (/\ last'.id = p /\ Present(peers_, p)
              /\ \E t \in Threads : RemovePeer(t, p))
             => IF peers_[p].state_ = "CLOSED"
                THEN Present(peers_', p) => peers_'[p] = peers_[p]
                ELSE \/ ~Present(peers_', p)
                     \/ peers_'[p].state_ = "CLOSED" /\ ~peers_'[p].webrtcbin]_vars

\* C23: while a ticket for a peer id exists another addPeerAsync for the id is
\* rejected, and the detached thread of an add never ends with the ticket of
\* its peer id still there, whatever the outcome of the add.
C23_TicketRemoved ==
    [][/\ \A w \in Threads, p \in PeerIds, src \in Sources :
             (p \in pendingConnections_ /\ AddPeerAsync(w, p, src))
             => last'.res = "false" /\ pendingConnections_' = pendingConnections_
       /\ \A w \in Threads :
             (pc[w] \in {"asyncAdd", "asyncResolve"} /\ pc'[w] = "idle" /\ ~terminated')
             => local[w].id \notin pendingConnections_']_vars

\* C24: the slots in use and the sessions in the registry never number more
\* than the configured maximum of streams, and an add that finds no free slot
\* returns false.
C24_WithinCapacity ==
    /\ Cardinality({i \in 1..Len(streams) : streams[i].active}) <= MaxStreamCount
    /\ PeerCount <= MaxStreamCount
    /\ (last.op = "addPeer" /\ last.step = "addStream") => last.res = "false"

\* C25: a port that an allocator handed out is a port of its range that was
\* not in use, never one of the ports that the recordings read, and an
\* allocator hands out no port only when every port of its range is in use.
C25_AllocatedPortIsFree ==
    /\ \A p \in PeerIds :
          streams_[p] # NoStream
          => /\ streams_[p].port \in StreamPortFirst..(StreamPortEnd - 1)
             /\ streams_[p].port \notin RecordingPorts
             /\ \A q \in PeerIds \ {p} :
                   streams_[q] # NoStream => streams_[q].port # streams_[p].port
    /\ \A p \in PeerIds :
          dynamicStreams[p] # NoStream
          => /\ dynamicStreams[p].port \in DynPortFirst..(DynPortEnd - 1)
             /\ dynamicStreams[p].port \notin RecordingPorts
    /\ (last.op = "createStream" /\ last.step = "port")
          => usedPorts_ = StreamPortFirst..(StreamPortEnd - 1)

\* C26: the release of a port that is not in use leaves the ports in use as
\* they were, and a second release of the same port changes nothing more.
C26_ReleaseIdempotent ==
    /\ released.port \notin released.used => released.once = released.used
    /\ released.once = released.used \ {released.port}
    /\ released.twice = released.once

C26_Witness ==
    /\ released.pool = "dynamic"
    /\ released.used # {}
    /\ released.port \notin released.used
    /\ released.once = released.used

\* C27: when removePeer(id) has returned true the port that the session of id
\* used is in use no longer, and no slot of the pipeline is held for id.
C27_PortFreedOnRemove ==
    [][(last'.op = "removePeer" /\ last'.res = "true")
       => \A p \in PeerIds :
             (/\ last'.id = p /\ Present(peers_, p)
              /\ \E t \in Threads : RemovePeer(t, p))
             => /\ peers_[p].streamPort \notin usedDynamicPorts'
                /\ \A i \in 1..Len(streams') :
                      ~(streams'[i].active /\ streams'[i].peerId = p)]_vars

\* What ends a unit of work on behalf of one peer without success: a text that
\* does not parse, an add that is rejected, the error of a negotiation.
FailureOf(l) ==
    \/ l.op = "handleMessage" /\ l.res = "dropped"
    \/ l.op \in {"addPeer", "addPeerSync"} /\ l.step \in FailingSteps
    \/ l.op = "onError"

\* C28: a parse failure, a rejected add or a negotiation failure of one peer
\* leaves every other peer as it was (session, slot and dynamic stream), and
\* the registry stays available: mutex_ is free and the process runs.
C28_FailureIsolated ==
    [][(last' # last /\ FailureOf(last'))
       => /\ \A b \in PeerIds \ {last'.id} :
                /\ peers_'[b] = peers_[b]
                /\ dynamicStreams'[b] = dynamicStreams[b]
                /\ \A i \in 1..Len(streams) :
                      streams[i].peerId = b => streams'[i] = streams[i]
          /\ mutex_' = NoOwner
          /\ ~terminated']_vars

\* C29: the supervisor enters Running only from Registered, it enters
\* Registered only in the connected handler (after Connected), and every
\* disconnect event of the transport leaves it Connecting.
C29_SupervisorOrder ==
    [][/\ (appState' = "RUNNING" /\ appState # "RUNNING") => appState = "REGISTERED"
       /\ (appState' = "REGISTERED" /\ appState # "REGISTERED")
             => \E t \in Threads, initial \in BOOLEAN : WsOnConnected(t, initial, TRUE)
       /\ \A t \in Threads : WsOnClosed(t) => appState' = "CONNECTING"]_vars

\* Application::State in the order of its declaration.
StateOrder ==
    <<"UNKNOWN", "INITIALIZING", "INITIALIZED", "CONNECTING", "CONNECTED", "REGISTERING",
      "REGISTERED", "RUNNING", "SHUTTING_DOWN", "ERROR">>

Rank(state) == CHOOSE i \in 1..Len(StateOrder) : StateOrder[i] = state

\* C30: on every transport connect the registration is the first message sent
\* on that connection, before any camera status; the connected callback ends
\* in REGISTERED by itself, without an acknowledgement of the server; and a
\* camstatus_reply leaves the state where it is or moves it forwards to
\* REGISTERED, never backwards.
C30_RegistrationFirst ==
    [][/\ link'.sent # <<>> => link'.sent[1] = "register"
       /\ ConnectedCallback => appState' = "REGISTERED"
       /\ \A w \in StatusReplies :
             LinkReply(w) => /\ appState' \in {appState, "REGISTERED"}
                             /\ Rank(appState') >= Rank(appState)]_vars

\* C31: while the application runs and the transport is down with no connect
\* under way, a connect is started in the end (or fails at once, or the
\* transport is up again); a reconnect attempt is never made sooner than
\* min(60, 2^attempts) seconds after the one before; a heartbeat round with
\* the transport up in REGISTERED or RUNNING sends one camera status; and no
\* camera status goes out while the transport is down.
C31_HeartbeatReconnects ==
    /\ \A k \in 0..(MaxAttempts - 1) :
          (running /\ ~isConnected /\ inFlight = 0 /\ ~initialInFlight
              /\ attempt.failed = k)
          ~> (isConnected \/ inFlight > 0 \/ initialInFlight \/ attempt.failed > k)
    /\ [][/\ (\E ok \in BOOLEAN : CheckAndReconnect(ok))
             => sinceLastAttempt >= Min(BackoffCap, 2 ^ reconnectAttempts_)
          /\ (HeartbeatStatus /\ Len(link.sent) < MaxSent)
             => link'.sent = Append(link.sent, "camstatus")
          /\ (link'.sent # link.sent /\ link'.sent # <<>>
                 /\ link'.sent[Len(link'.sent)] = "camstatus")
             => isConnected]_vars

\* The sum of the bytes that the sessions ids have sent.
RECURSIVE SumOf(_, _)
SumOf(ids, reply) ==
    IF ids = {} THEN 0
    ELSE LET p == CHOOSE q \in ids : TRUE IN reply[p] + SumOf(ids \ {p}, reply)

ConnectedPeers == {p \in PeerIds : Present(peers_, p) /\ peers_[p].state_ = "CONNECTED"}

\* C32: getGlobalStatistics returns, for the map as it is at the call, the
\* number of sessions, the number of Connected sessions, the sum of the bytes
\* these have sent, and the bitrate bytes * 8 / (connected * 1e6), 0 with no
\* session Connected; it changes no session and no map entry.
C32_StatisticsOfTheMap ==
    [][(last'.op = "getGlobalStatistics" /\ last'.res = "returned" /\ last' # last)
       => /\ last'.stats.totalPeers = PeerCount
          /\ last'.stats.activePeers = Cardinality(ConnectedPeers)
          /\ last'.stats.totalBytesSent = SumOf(ConnectedPeers, last'.reply)
          /\ last'.stats.averageBitrate.bits * Cardinality(ConnectedPeers) * 1000000
                = SumOf(ConnectedPeers, last'.reply) * 8
                     * last'.stats.averageBitrate.perMbps
          /\ ConnectedPeers = {} => last'.stats.averageBitrate.bits = 0
          /\ peers_' = peers_]_vars

\* A thread that is inside a call of a session: it waits in onStateChange,
\* which WebRTCPeer::setState called from connectToStream, disconnect or
\* setRemoteDescription.
InSessionCall(t) == pc[t] = "deadlocked"

\* C33: the peer map changes only in a step of a thread that found mutex_ free
\* and took it, and no thread is inside a call of a session (connecting the
\* stream, the disconnect) while it owns mutex_.
C33_NoEngineCallUnderLock ==
    [][/\ peers_' # peers_ => mutex_ = NoOwner
       /\ \A t \in Threads : InSessionCall(t)' => mutex_' # t]_vars

\* C34: a callback of a session (offer created, candidate found) that reaches
\* the registry when its peer is no longer in peers_ hands no message to the
\* message callback.
C34_RemovedPeerSilent ==
    [][\A t \in Threads :
          (ManagerCallback(t) /\ ~Present(peers_, local[t].id))
          => last'.res # "sent"]_vars

\* C35: an id is in peers_ only with its connection set up: the port of its
\* stream is known, its udpsrc exists and its session is wired to it, and the
\* add that inserted it has not failed.
C35_InsertedWhenReady ==
    /\ \A p \in PeerIds :
          Present(peers_, p)
          => /\ peers_[p].streamPort # -1
             /\ peers_[p].udpSrc
             /\ peers_[p].webrtcbin \/ peers_[p].state_ = "CLOSED"
    /\ (last.op \in {"addPeer", "addPeerSync"} /\ last.step # "duplicate"
           /\ last.res \in {"false", "block", "threw"})
          => ~Present(peers_, last.id)

\* The PeerLeft message for p is the latest call on the registry and its
\* removePeer has returned.
PeerLeftHandled(p) == last.op = "removePeer" /\ last.id = p /\ last.res \in {"true", "false"}

\* An add for p that was requested and has not ended: queued in the pool, or
\* on a detached thread that has not returned.
AddOutstanding(p) ==
    \/ \E i \in 1..Len(backgroundTasks_) : backgroundTasks_[i].peerId = p
    \/ \E w \in Threads \ {MainLoop} :
          \/ pc[w] # "idle" /\ local[w].id = p
          \/ pc[w] = "deadlocked"

\* p has no session in the registry and no stream slot.
Gone(p) == ~Present(peers_, p) /\ SlotsOf(p) = {}

\* C36: once the PeerLeft message for p has been handled and every add for p
\* that was requested before it has ended, p is not in the registry and holds
\* no stream: this holds right after the handler when no add is outstanding,
\* and as soon as the last outstanding add ends otherwise.
C36_PeerLeftRemoves ==
    [][\A p \in PeerIds :
          /\ (PeerLeftHandled(p)' /\ ~AddOutstanding(p)') => Gone(p)'
          /\ (PeerLeftHandled(p) /\ ~AddOutstanding(p)') => Gone(p)']_vars

\* C37: with the signaling link down, its disconnect handler finished and no
\* add outstanding, the registry is empty: no peer, no stream slot in use.
C37_EmptyWhileDisconnected ==
    (/\ ~connected
     /\ Idle(MainLoop)
     /\ \A p \in PeerIds : ~AddOutstanding(p))
    => \A p \in PeerIds : Gone(p)

\* C38: at most one connect of the websocket client is under way at any time:
\* the connect of setupWebSocket and the connects of checkAndReconnect together
\* never number more than one, and checkAndReconnect starts none while one has
\* not reported its end.
C38_OneConnectInFlight ==
    [][/\ inFlight' + (IF initialInFlight' THEN 1 ELSE 0) <= 1
       /\ (inFlight' > inFlight) => (inFlight = 0 /\ ~initialInFlight)]_vars

\* C39: for every value the counter of failed attempts reaches, the wait
\* min(60, 1 << attempts) computed on a 32-bit int lies in 1..60.
C39_BackoffInRange ==
    [][(reconnectAttempts_' = reconnectAttempts_ + 1)
       => attempt'.backoffTime \in 1..BackoffCap]_vars

\* C40: a reconnection attempt whose failure is reported through the
\* disconnected callback after connect() returned true increments the attempt
\* counter, as an attempt that fails synchronously does.
C40_AsyncFailureCounts ==
    [][(inFlight' = inFlight - 1 /\ attempt'.failed = attempt.failed + 1)
       => reconnectAttempts_' = reconnectAttempts_ + 1]_vars

=============================================================================
